---------------------------- MODULE Spec2Model ----------------------------
(***************************************************************************)
(* A model of the multi-source acquisition engine of                       *)
(* Data_Analysis/stocker/data_sources.py (MultiSourceDataFetcher): the     *)
(* provider adapters, the retry-with-backoff loop, the schema normalizer   *)
(* and the mock-data generator.                                            *)
(*                                                                         *)
(* Strings the code inspects character by character (tickers) are          *)
(* sequences of one-character strings; column names, which the code only   *)
(* compares and lower-cases, are strings.                                  *)
(***************************************************************************)
EXTENDS Integers, Sequences, FiniteSets, TLC

(***************************************************************************)
(* Bounds of the model.                                                    *)
(***************************************************************************)
\* the largest number of rows of an enumerated raw table
MaxRows == 2
\* the day numbers 1..MaxDate an enumerated raw table draws its dates from
MaxDate == 2
\* the prices 1..MaxPrice an enumerated raw table draws open/close from
MaxPrice == 2

(***************************************************************************)
(* Program constants.                                                      *)
(***************************************************************************)
\* self.max_retries = 3
max_retries == 3
\* self.base_delay = 5
base_delay == 5
\* np.random.randint(100000, 10000000, ...): low bound, inclusive
VolumeLow == 100000
\* np.random.randint(100000, 10000000, ...): high bound, exclusive
VolumeHigh == 10000000

(***************************************************************************)
(* str methods on character sequences.                                     *)
(***************************************************************************)
LowerLetters ==
    << "a","b","c","d","e","f","g","h","i","j","k","l","m",
       "n","o","p","q","r","s","t","u","v","w","x","y","z" >>

UpperLetters ==
    << "A","B","C","D","E","F","G","H","I","J","K","L","M",
       "N","O","P","Q","R","S","T","U","V","W","X","Y","Z" >>

DigitChars == {"0","1","2","3","4","5","6","7","8","9"}

WhitespaceChars == {" ", "\t", "\n"}

\* str.upper() of one character
UpperChar(c) ==
    IF \E i \in DOMAIN LowerLetters : LowerLetters[i] = c
    THEN UpperLetters[CHOOSE i \in DOMAIN LowerLetters : LowerLetters[i] = c]
    ELSE c

\* str.upper()
StrUpper(s) == [i \in DOMAIN s |-> UpperChar(s[i])] \o << >>

\* str.isdigit(): non-empty and every character a digit
StrIsDigit(s) == Len(s) > 0 /\ \A i \in DOMAIN s : s[i] \in DigitChars

\* str.strip(): leading and trailing whitespace removed
StrStrip(s) ==
    LET keep == {i \in DOMAIN s : s[i] \notin WhitespaceChars}
    IN  IF keep = {} THEN << >>
        ELSE LET lo == CHOOSE i \in keep : \A j \in keep : i <= j
                 hi == CHOOSE i \in keep : \A j \in keep : j <= i
             IN  SubSeq(s, lo, hi)

\* '.' in s
HasDot(s) == \E i \in DOMAIN s : s[i] = "."

\* s.split('.')[0]: the text before the first '.', the whole of s without one
SplitDotFirst(s) ==
    IF HasDot(s)
    THEN LET d == CHOOSE i \in DOMAIN s :
                      s[i] = "." /\ \A j \in 1..(i - 1) : s[j] # "."
         IN  SubSeq(s, 1, d - 1)
    ELSE s

\* s.startswith(prefixes) for a tuple of prefixes
StartsWithAny(s, prefixes) ==
    \E p \in prefixes : Len(p) <= Len(s) /\ SubSeq(s, 1, Len(p)) = p

(***************************************************************************)
(* Ticker conversion of the two adapters.  NoSymbol is Python's None.      *)
(***************************************************************************)
NoSymbol == << "<None>" >>

\* a_stock_mapping of _convert_ticker_to_akshare
a_stock_mapping ==
    { << <<"P","I","N","G","_","A","N">>,         <<"0","0","0","0","0","1">> >>,
      << <<"T","E","N","C","E","N","T">>,         <<"0","0","0","8","5","8">> >>,
      << <<"A","L","I","B","A","B","A">>,         <<"0","0","0","0","0","1">> >>,
      << <<"B","A","I","D","U">>,                 <<"0","0","0","0","0","1">> >>,
      << <<"M","O","U","T","A","I">>,             <<"6","0","0","5","1","9">> >>,
      << <<"W","U","L","I","A","N","G","Y","E">>, <<"0","0","0","8","5","8">> >>,
      << <<"P","I","N","G","A","N">>,             <<"0","0","0","0","0","1">> >> }

\* the US tickers _convert_ticker_to_akshare replaces by 600519
us_tickers ==
    { <<"M","S","F","T">>, <<"A","A","P","L">>, <<"G","O","O","G","L">> }

\* _convert_ticker_to_akshare
_convert_ticker_to_akshare(t) ==
    LET ticker == StrStrip(StrUpper(t))
        code   == SplitDotFirst(ticker)
    IN  IF Len(ticker) = 6 /\ StrIsDigit(ticker) THEN ticker
        ELSE IF HasDot(ticker) /\ Len(code) = 6 /\ StrIsDigit(code) THEN code
        ELSE IF \E m \in a_stock_mapping : m[1] = ticker
             THEN (CHOOSE m \in a_stock_mapping : m[1] = ticker)[2]
        ELSE IF ticker \in us_tickers THEN <<"6","0","0","5","1","9">>
        ELSE NoSymbol

\* _convert_ticker_to_tushare
_convert_ticker_to_tushare(ticker) ==
    IF Len(ticker) = 6 /\ StrIsDigit(ticker)
    THEN IF StartsWithAny(ticker, { <<"0","0","0">>, <<"0","0","1">>,
                                    <<"0","0","2">>, <<"0","0","3">> })
         THEN ticker \o <<".","S","Z">>
         ELSE IF StartsWithAny(ticker, { <<"6","0","0">>, <<"6","0","1">>,
                                         <<"6","0","3">>, <<"6","0","5">> })
         THEN ticker \o <<".","S","H">>
         ELSE NoSymbol
    ELSE NoSymbol

(***************************************************************************)
(* numpy's global random source.  np.random is a deterministic generator: *)
(* every draw is a function of the generator state, which the draw         *)
(* advances.  The Mersenne Twister is stood in for by a full-period linear *)
(* congruential generator on 24 bits (wide enough for the volume range).   *)
(***************************************************************************)
\* the generator state after one draw
RngNext(x) == (101 * x + 1) % 16777216

\* the states after 1, 2, ..., n draws (computed by halves, so that the
\* evaluation stays shallow for the long draws of the mock generator)
RECURSIVE RngStates(_, _)
RngStatesAfter(a, n) == a \o RngStates(a[Len(a)], n - Len(a))

RngStates(x, n) ==
    IF n = 0 THEN << >>
    ELSE IF n = 1 THEN << RngNext(x) >>
    ELSE RngStatesAfter(RngStates(x, n \div 2), n)

\* np.random.randint(low, high) drawn in state x: uniform on low..high-1
\* the lower end forgotten: a number below high
RandIntFromZero(x, low, high) == x % high

RandInt(x, low, high) == low + (x % (high - low))

\* np.random.normal(0, sigma) drawn in state x, in units of sigma/100: the
\* unbounded normal deviate is stood in for by a draw from -3 sigma..3 sigma
RandNormal(x, sigma100) == (x % (6 * sigma100 + 1)) - 3 * sigma100

(***************************************************************************)
(* Tables (pandas DataFrame).  A table has an ordered list of column       *)
(* names, the dtype of each column, a named or unnamed index and rows;     *)
(* a row is its index label and its cells, aligned with the columns.       *)
(* Dates are day numbers; in a column of dtype "object" (text) the cell 0  *)
(* is a text pd.to_datetime cannot parse.  NoName is the name None.        *)
(***************************************************************************)
NoName == "<None>"

\* the cell of date text that pd.to_datetime rejects
BadDate == 0

\* the sequence s, held as an explicit tuple of its elements
Tuple(s) == s \o << >>

\* positions of the columns named c
ColumnPositions(t, c) == {i \in DOMAIN t.cols : t.cols[i] = c}

\* c in stock_data.columns
HasColumn(t, c) == ColumnPositions(t, c) # {}

\* the position stock_data[c] reads when the name is unique
ColumnAt(t, c) == CHOOSE i \in ColumnPositions(t, c) : TRUE

\* the values of column c, row by row
ColumnValues(t, c) == Tuple([r \in DOMAIN t.rows |-> t.rows[r].cells[ColumnAt(t, c)]])

\* stock_data.empty
IsEmpty(t) == Len(t.rows) = 0 \/ Len(t.cols) = 0

\* stock_data[c] = values: the column is overwritten where it is, or appended
SetColumn(t, c, dtype, values) ==
    IF HasColumn(t, c)
    THEN [t EXCEPT
            !.dtypes = [@ EXCEPT ![ColumnAt(t, c)] = dtype],
            !.rows = Tuple([r \in DOMAIN t.rows |->
                        [t.rows[r] EXCEPT !.cells[ColumnAt(t, c)] = values[r]]])]
    ELSE [t EXCEPT
            !.cols = Append(@, c),
            !.dtypes = Append(@, dtype),
            !.rows = Tuple([r \in DOMAIN t.rows |->
                        [t.rows[r] EXCEPT !.cells = Append(@, values[r])]])]

\* stock_data.reset_index(): the index becomes the first column, under its
\* name, and the rows are labelled 0..n-1
ResetIndex(t) ==
    [index_name |-> NoName,
     index_dtype |-> "int64",
     cols |-> << t.index_name >> \o t.cols,
     dtypes |-> << t.index_dtype >> \o t.dtypes,
     rows |-> Tuple([r \in DOMAIN t.rows |->
                 [idx |-> r - 1, cells |-> << t.rows[r].idx >> \o t.rows[r].cells]])]

\* stock_data.reset_index(drop=True): the rows are labelled 0..n-1
ResetIndexDrop(t) ==
    [t EXCEPT !.index_name = NoName,
              !.index_dtype = "int64",
              !.rows = Tuple([r \in DOMAIN t.rows |-> [t.rows[r] EXCEPT !.idx = r - 1]])]

(***************************************************************************)
(* _standardize_data                                                       *)
(***************************************************************************)
\* str.lower() on the column names the model uses
lower(col) ==
    CASE col \in {"Date", "date", "DATE"}       -> "date"
      [] col \in {"Open", "open", "OPEN"}       -> "open"
      [] col \in {"High", "high", "HIGH"}       -> "high"
      [] col \in {"Low", "low", "LOW"}          -> "low"
      [] col \in {"Close", "close", "CLOSE"}    -> "close"
      [] col \in {"Volume", "volume", "VOLUME"} -> "volume"
      [] col \in {"Amount", "amount"}           -> "amount"
      [] col = "Adj. Close"                     -> "adj. close"
      [] col = "Adj. Open"                      -> "adj. open"
      [] col = "Daily Change"                   -> "daily change"
      [] OTHER                                  -> col

\* column_mapping of _standardize_data
column_mapping ==
    { <<"date", "Date">>, <<"open", "Open">>, <<"high", "High">>,
      <<"low", "Low">>, <<"close", "Close">>, <<"volume", "Volume">> }

\* column_mapping.get(col.lower(), col)
RenameColumn(col) ==
    IF \E m \in column_mapping : m[1] = lower(col)
    THEN (CHOOSE m \in column_mapping : m[1] = lower(col))[2]
    ELSE col

\* required_columns of _standardize_data, in the order the loop visits them
required_columns == << "Date", "Open", "High", "Low", "Close", "Volume" >>

\* line 262-263: the index is promoted when there is no 'Date' column and the
\* index is named exactly 'Date'
PromoteIndex(t) ==
    IF ~HasColumn(t, "Date") /\ t.index_name = "Date" THEN ResetIndex(t) ELSE t

\* line 275: every column renamed through column_mapping
RenameColumns(t) ==
    [t EXCEPT !.cols = Tuple([i \in DOMAIN t.cols |-> RenameColumn(t.cols[i])])]

\* line 279-285: the first required column whose absence raises, 0 for none.
\* 'Volume' is filled in when 'Close' is there, any other absence raises.
\* the loop stopping at the last missing column instead of the first
LastFatalMissing(t) ==
    LET fatal == {i \in DOMAIN required_columns :
                    /\ ~HasColumn(t, required_columns[i])
                    /\ ~(required_columns[i] = "Volume" /\ HasColumn(t, "Close"))}
    IN  IF fatal = {} THEN 0 ELSE CHOOSE i \in fatal : \A j \in fatal : i >= j

FirstFatalMissing(t) ==
    LET fatal == {i \in DOMAIN required_columns :
                    /\ ~HasColumn(t, required_columns[i])
                    /\ ~(required_columns[i] = "Volume" /\ HasColumn(t, "Close"))}
    IN  IF fatal = {} THEN 0 ELSE CHOOSE i \in fatal : \A j \in fatal : i <= j

\* np.random.randint(low, high, n) from the states xs of its n draws
RandIntVector(xs, low, high) == Tuple([r \in DOMAIN xs |-> RandInt(xs[r], low, high)])

\* line 283: the placeholder volume, one draw per row
FillVolume(t, x) ==
    IF HasColumn(t, "Volume") THEN t
    ELSE SetColumn(t, "Volume", "int64",
                   RandIntVector(RngStates(x, Len(t.rows)), VolumeLow, VolumeHigh))

\* the generator state _standardize_data leaves behind
RngAfterFill(t, x) ==
    IF HasColumn(t, "Volume") \/ Len(t.rows) = 0 THEN x
    ELSE RngStates(x, Len(t.rows))[Len(t.rows)]

\* line 288-289: text dates are parsed; pd.to_datetime raises on a text it
\* cannot read
DateUnparsable(t) ==
    /\ t.dtypes[ColumnAt(t, "Date")] = "object"
    /\ \E r \in DOMAIN t.rows : t.rows[r].cells[ColumnAt(t, "Date")] = BadDate

ParseDates(t) ==
    IF t.dtypes[ColumnAt(t, "Date")] = "object"
    THEN SetColumn(t, "Date", "datetime64", ColumnValues(t, "Date"))
    ELSE t

\* stock_data[target] = stock_data[source]
CopyColumn(t, target, source) ==
    SetColumn(t, target, t.dtypes[ColumnAt(t, source)], ColumnValues(t, source))

\* stock_data[target] = stock_data[a] - stock_data[b]
DifferenceColumn(t, target, a, b) ==
    SetColumn(t, target, t.dtypes[ColumnAt(t, a)],
              Tuple([r \in DOMAIN t.rows |->
                 t.rows[r].cells[ColumnAt(t, a)] - t.rows[r].cells[ColumnAt(t, b)]]))

\* line 292-293: the adjusted prices
AddAdjusted(t) == CopyColumn(CopyColumn(t, "Adj. Close", "Close"), "Adj. Open", "Open")

\* the Prophet columns left out
AddProphetNothing(t) == t

\* line 296-297: the Prophet columns
AddProphet(t) == CopyColumn(CopyColumn(t, "ds", "Date"), "y", "Adj. Close")

\* the difference taken the other way round
AddDailyChangeReversed(t) == DifferenceColumn(t, "Daily Change", "Adj. Open", "Adj. Close")

\* line 298: the daily change
AddDailyChange(t) == DifferenceColumn(t, "Daily Change", "Adj. Close", "Adj. Open")

\* the derived columns followed by a dropna() that loses the first row, as
\* when the daily change is taken from the day before
AddDerivedDropNa(t) ==
    [AddDailyChange(AddProphet(AddAdjusted(t))) EXCEPT
        !.rows = SubSeq(AddDailyChange(AddProphet(AddAdjusted(t))).rows, 2, Len(t.rows))]

\* line 292-298: the adjusted prices, the Prophet columns and the daily change
AddDerived(t) == AddDailyChange(AddProphet(AddAdjusted(t)))

\* the sequence without its i-th element
RemoveAt(s, i) == SubSeq(s, 1, i - 1) \o SubSeq(s, i + 1, Len(s))

\* line 301, sort_values('Date'): every order of the rows that is ascending in
\* column k.  The default sort kind is quicksort, which pandas documents as
\* not stable: rows of equal date may come out in any order.
RECURSIVE TiedOrders(_, _)
TiedOrders(rows, k) ==
    IF rows = << >> THEN {<< >>}
    ELSE LET least == {i \in DOMAIN rows :
                         \A j \in DOMAIN rows : rows[i].cells[k] <= rows[j].cells[k]}
         IN  UNION {{<< rows[i] >> \o rest : rest \in TiedOrders(RemoveAt(rows, i), k)}
                    : i \in least}

\* the one ascending order of rows whose values in column k are all different:
\* each row goes to the position its rank gives it
Ranks(keys) ==
    Tuple([i \in DOMAIN keys |-> 1 + Cardinality({j \in DOMAIN keys : keys[j] < keys[i]})])

PlaceByRank(rows, ranks) ==
    Tuple([p \in DOMAIN rows |-> rows[CHOOSE i \in DOMAIN rows : ranks[i] = p]])

RankOrder(rows, k) ==
    PlaceByRank(rows, Ranks(Tuple([i \in DOMAIN rows |-> rows[i].cells[k]])))

\* rows already strictly ascending in column k stay as they are; rows of
\* different values have one ascending order; otherwise the ties are open
SortedOrders(rows, k) ==
    IF \A i \in 1..(Len(rows) - 1) : rows[i].cells[k] < rows[i + 1].cells[k]
    THEN {rows}
    ELSE IF Cardinality({rows[i].cells[k] : i \in DOMAIN rows}) = Len(rows)
    THEN {RankOrder(rows, k)}
    ELSE TiedOrders(rows, k)

\* the sort left out: the rows are only renumbered
SortByDateUnsorted(t) == {ResetIndexDrop(t)}

\* the rows of o that do not repeat the value their predecessor has in column k
FirstOfEach(o, k) ==
    LET keep == {r \in DOMAIN o : r = 1 \/ o[r].cells[k] # o[r - 1].cells[k]}
    IN  Tuple([p \in 1..Cardinality(keep) |->
                 o[CHOOSE r \in keep : Cardinality({q \in keep : q <= r}) = p]])

\* a sort that drops the later rows of a date: drop_duplicates('Date')
SortByDateDropDuplicates(t) ==
    {ResetIndexDrop([t EXCEPT !.rows = FirstOfEach(o, ColumnAt(t, "Date"))]) :
       o \in SortedOrders(t.rows, ColumnAt(t, "Date"))}

\* line 301: sort by date, then renumber the rows
SortByDate(t) ==
    {ResetIndexDrop([t EXCEPT !.rows = o]) : o \in SortedOrders(t.rows, ColumnAt(t, "Date"))}

\* line 287-303, once the required columns are there
StandardizeFilled(filled, x) ==
    \* stock_data['Date'] is a frame, not a column, when the name occurs
    \* twice: .dtype raises AttributeError
    IF Cardinality(ColumnPositions(filled, "Date")) > 1
    THEN {[ok |-> FALSE, exc |-> "AttributeError", msg |-> "no dtype",
           col |-> "Date", rng |-> x]}
    ELSE IF DateUnparsable(filled)
    THEN {[ok |-> FALSE, exc |-> "ValueError", msg |-> "no date",
           col |-> "Date", rng |-> x]}
    \* a two-column frame cannot be assigned to the one column Adj. Close
    ELSE IF Cardinality(ColumnPositions(filled, "Close")) > 1
    THEN {[ok |-> FALSE, exc |-> "ValueError", msg |-> "two columns",
           col |-> "Close", rng |-> x]}
    ELSE IF Cardinality(ColumnPositions(filled, "Open")) > 1
    THEN {[ok |-> FALSE, exc |-> "ValueError", msg |-> "two columns",
           col |-> "Open", rng |-> x]}
    ELSE {[ok |-> TRUE, table |-> s, rng |-> x] :
            s \in SortByDate(AddDerived(ParseDates(filled)))}

\* line 277-303, once the columns are renamed
StandardizeRenamed(renamed, x) ==
    IF FirstFatalMissing(renamed) # 0
    THEN {[ok |-> FALSE, exc |-> "ValueError", msg |-> "missing",
           col |-> required_columns[FirstFatalMissing(renamed)], rng |-> x]}
    ELSE StandardizeFilled(FillVolume(renamed, x), RngAfterFill(renamed, x))

\* _standardize_data(stock_data, ticker) with np.random in state x: the set of
\* its possible outcomes, an exception or a table, and the generator state
\* left behind.  An exception has its class, what it complains of (msg: a
\* required column is missing, line 285; the date text is no date, line 289;
\* a name that stands for two columns has no dtype, line 288, or cannot be
\* assigned to one column, line 292-293) and the column concerned, which for
\* a missing column is the one the message names.
_standardize_data(stock_data, x) ==
    StandardizeRenamed(RenameColumns(PromoteIndex(stock_data)), x)

(***************************************************************************)
(* _generate_mock_data                                                     *)
(***************************************************************************)
\* days of month m of year y (Gregorian)
DaysInMonth(y, m) ==
    IF m = 2
    THEN IF (y % 4 = 0 /\ y % 100 # 0) \/ y % 400 = 0 THEN 29 ELSE 28
    ELSE IF m \in {4, 6, 9, 11} THEN 30 ELSE 31

RECURSIVE DaysThroughMonth(_, _)
DaysThroughMonth(y, m) ==
    IF m = 0 THEN 0 ELSE DaysInMonth(y, m) + DaysThroughMonth(y, m - 1)

\* the days of a date_range with freq='B': the working days of the year only
MockDaysWorkingDays == (DaysThroughMonth(2024, 12) * 5) \div 7 + 1

\* len(pd.date_range(start='2024-01-01', end='2024-12-31', freq='D'))
MockDays == DaysThroughMonth(2024, 12)

\* the code points of the characters tickers are made of
CharCodes ==
    << " ", ".", "_", "0","1","2","3","4","5","6","7","8","9",
       "A","B","C","D","E","F","G","H","I","J","K","L","M",
       "N","O","P","Q","R","S","T","U","V","W","X","Y","Z",
       "a","b","c","d","e","f","g","h","i","j","k","l","m",
       "n","o","p","q","r","s","t","u","v","w","x","y","z", "\t", "\n" >>

ord(c) == CHOOSE i \in DOMAIN CharCodes : CharCodes[i] = c

\* hash(ticker) % 2**32: Python salts str hashes once per process (salt), and
\* within a process the hash is a function of the characters.  The seed space
\* is the 24 bits of the stand-in generator.
RECURSIVE StrHash(_, _)
StrHash(s, salt) ==
    IF s = << >> THEN salt % 16777216
    ELSE (31 * StrHash(SubSeq(s, 1, Len(s) - 1), salt) + ord(s[Len(s)])) % 16777216

\* line 318-322: the random walk of closes, in hundredths: prices[0] = 100.0,
\* then max(previous + normal(0, 2), 1.0), one draw per further day
\* max(a, b)
max(a, b) == IF a >= b THEN a ELSE b

\* a step without the floor
StepPriceUnfloored(last, x) == last + RandNormal(x, 200)

\* line 320-321: one step of the walk, from the price `last` with the draw x
StepPrice(last, x) == max(last + RandNormal(x, 200), 100)

\* the prices of the steps whose draws are xs[lo..hi], after the price `last`
\* (computed by halves)
RECURSIVE WalkSteps(_, _, _, _)
WalkStepsAfter(a, xs, from, hi) == a \o WalkSteps(a[Len(a)], xs, from, hi)

WalkSteps(last, xs, lo, hi) ==
    IF lo > hi THEN << >>
    ELSE IF lo = hi THEN << StepPrice(last, xs[lo]) >>
    ELSE WalkStepsAfter(WalkSteps(last, xs, lo, (lo + hi) \div 2), xs,
                        ((lo + hi) \div 2) + 1, hi)

RandomWalk(xs, n) == << 10000 >> \o WalkSteps(10000, xs, 1, n - 1)

\* |v|
abs(v) == IF v < 0 THEN -v ELSE v

\* line 325-332: the generated frame, from the closes and the states xs of all
\* the draws: n-1 for the walk, then n each for the Open, High, Low and Volume
\* comprehensions, in this order
MockFrame(prices, xs, n) ==
    [index_name |-> NoName,
     index_dtype |-> "int64",
     cols |-> << "Date", "Open", "High", "Low", "Close", "Volume" >>,
     dtypes |-> << "datetime64", "float64", "float64", "float64", "float64", "int64" >>,
     rows |-> Tuple([i \in 1..n |->
                 [idx |-> i - 1,
                  cells |-> << i,
                               (prices[i] * (1000 + RandNormal(xs[(n - 1) + i], 10))) \div 1000,
                               (prices[i] * (1000 + abs(RandNormal(xs[(2 * n - 1) + i], 20)))) \div 1000,
                               (prices[i] * (1000 - abs(RandNormal(xs[(3 * n - 1) + i], 20)))) \div 1000,
                               prices[i],
                               RandInt(xs[(4 * n - 1) + i], VolumeLow, VolumeHigh) >>]])]

\* line 310-334 with the draws' states at hand
MockFromDraws(xs, n) ==
    _standardize_data(MockFrame(RandomWalk(xs, n), xs, n), xs[Len(xs)])

\* _generate_mock_data(ticker) in a process of hash salt `salt`: np.random is
\* seeded from the ticker, the frame is generated and standardized
_generate_mock_data(ticker, salt) ==
    MockFromDraws(RngStates(StrHash(ticker, salt), 5 * MockDays - 1), MockDays)

(***************************************************************************)
(* The provider adapters.  A call of an adapter ends in an exception or in *)
(* a returned table; on the way it makes its upstream (network) calls and  *)
(* may draw from np.random.  `failure` classifies an exception: the        *)
(* library or the credentials are missing (Unavailable), the ticker has no *)
(* symbol at this provider (NotFound), the upstream call returned no rows  *)
(* (Empty), a price column is missing upstream (Columns), or the upstream  *)
(* call raised (Transient).  The failure of _standardize_data on a         *)
(* returned table is Schema.                                               *)
(***************************************************************************)
\* Python's None where a table is expected
NoneTable ==
    [index_name |-> "<NoneObject>", index_dtype |-> "int64",
     cols |-> << >>, dtypes |-> << >>, rows |-> << >>]

AdapterRaises(exc, failure, upstream, x) ==
    [raised |-> TRUE, exc |-> exc, failure |-> failure, table |-> NoneTable,
     upstream |-> upstream, rng |-> x]

AdapterReturns(table, upstream, x) ==
    [raised |-> FALSE, exc |-> "", failure |-> "", table |-> table,
     upstream |-> upstream, rng |-> x]

\* column_mapping of _fetch_akshare_data.  The upstream names are Chinese;
\* they are written here in pinyin: riqi 日期, kaipan 开盘, shoupan 收盘,
\* zuigao 最高, zuidi 最低, chengjiaoliang 成交量, chengjiaoe 成交额,
\* zhenfu 振幅, zhangdiefu 涨跌幅, zhangdiee 涨跌额, huanshoulv 换手率
ak_column_mapping ==
    { <<"riqi", "Date">>, <<"kaipan", "Open">>, <<"shoupan", "Close">>,
      <<"zuigao", "High">>, <<"zuidi", "Low">>, <<"chengjiaoliang", "Volume">>,
      <<"chengjiaoe", "Amount">>, <<"zhenfu", "Amplitude">>,
      <<"zhangdiefu", "Change%">>, <<"zhangdiee", "Change">>,
      <<"huanshoulv", "Turnover">> }

\* stock.rename(columns=column_mapping): exact names only
AkRenameColumn(col) ==
    IF \E m \in ak_column_mapping : m[1] = col
    THEN (CHOOSE m \in ak_column_mapping : m[1] = col)[2]
    ELSE col

AkRenameColumns(t) ==
    [t EXCEPT !.cols = Tuple([i \in DOMAIN t.cols |-> AkRenameColumn(t.cols[i])])]

\* stock_renamed[names]: the named columns, in the order of names
SelectColumns(t, names) ==
    [t EXCEPT
       !.cols = names,
       !.dtypes = Tuple([i \in DOMAIN names |-> t.dtypes[ColumnAt(t, names[i])]]),
       !.rows = Tuple([r \in DOMAIN t.rows |->
                   [t.rows[r] EXCEPT
                      !.cells = Tuple([i \in DOMAIN names |->
                                         t.rows[r].cells[ColumnAt(t, names[i])]])]])]

\* line 116-123: how many days back the requested period starts
PeriodDays(period) ==
    CASE period = "1y" -> 365
      [] period = "2y" -> 730
      [] period = "5y" -> 1825
      [] OTHER         -> 365

\* line 131-137: the one upstream call of an akshare invocation
AkUpstreamCall(ak_symbol, period) ==
    [ev |-> "upstream", src |-> "akshare", symbol |-> ak_symbol,
     from_2000 |-> (period = "max"),
     days_back |-> IF period = "max" THEN 0 ELSE PeriodDays(period)]

\* line 163-183, once the upstream columns are renamed: a missing Volume is
\* drawn, any other missing column raises, the six columns are returned
AkFinish(stock_renamed, call, x) ==
    IF \E i \in DOMAIN required_columns :
          /\ required_columns[i] # "Volume"
          /\ ~HasColumn(stock_renamed, required_columns[i])
    THEN AdapterRaises("Exception", "Columns", << call >>, RngAfterFill(stock_renamed, x))
    ELSE AdapterReturns(SelectColumns(FillVolume(stock_renamed, x), required_columns),
                        << call >>, RngAfterFill(stock_renamed, x))

\* an adapter that asks upstream first and looks at the symbol afterwards
_fetch_akshare_dataAsksFirst(available, ticker, period, up, x) ==
    IF ~available
    THEN AdapterRaises("ImportError", "Unavailable", << >>, x)
    ELSE IF up.raises \/ _convert_ticker_to_akshare(ticker) = NoSymbol
    THEN AdapterRaises("Exception", "Transient",
                       << AkUpstreamCall(_convert_ticker_to_akshare(ticker), period) >>, x)
    ELSE IF IsEmpty(up.table)
    THEN AdapterRaises("Exception", "Empty",
                       << AkUpstreamCall(_convert_ticker_to_akshare(ticker), period) >>, x)
    ELSE AkFinish(AkRenameColumns(up.table),
                  AkUpstreamCall(_convert_ticker_to_akshare(ticker), period), x)

\* _fetch_akshare_data(ticker, period), with `up` what ak.stock_zh_a_hist does
\* when called and x the state of np.random.  Everything raised from the
\* upstream call on is re-raised as Exception (line 185-186).
_fetch_akshare_data(available, ticker, period, up, x) ==
    IF ~available
    THEN AdapterRaises("ImportError", "Unavailable", << >>, x)
    ELSE IF _convert_ticker_to_akshare(ticker) = NoSymbol
    THEN AdapterRaises("ValueError", "NotFound", << >>, x)
    ELSE IF up.raises
    THEN AdapterRaises("Exception", "Transient",
                       << AkUpstreamCall(_convert_ticker_to_akshare(ticker), period) >>, x)
    ELSE IF IsEmpty(up.table)
    THEN AdapterRaises("Exception", "Empty",
                       << AkUpstreamCall(_convert_ticker_to_akshare(ticker), period) >>, x)
    ELSE AkFinish(AkRenameColumns(up.table),
                  AkUpstreamCall(_convert_ticker_to_akshare(ticker), period), x)

\* an adapter with an API token: one row for every ticker that has a symbol
_fetch_tushare_dataWithToken(available, ticker, period, x) ==
    IF ~available
    THEN AdapterRaises("ImportError", "Unavailable", << >>, x)
    ELSE IF _convert_ticker_to_tushare(ticker) = NoSymbol
    THEN AdapterRaises("Exception", "NotFound", << >>, x)
    ELSE AdapterReturns([index_name |-> NoName,
                         index_dtype |-> "int64",
                         cols |-> required_columns,
                         dtypes |-> << "datetime64", "float64", "float64",
                                       "float64", "float64", "int64" >>,
                         rows |-> << [idx |-> 0, cells |-> << 1, 1, 1, 1, 1, 1 >>] >>],
                        << >>, x)

\* _fetch_tushare_data(ticker, period): no upstream call is made; the missing
\* symbol and the missing API token are both re-raised as Exception
_fetch_tushare_data(available, ticker, period, x) ==
    IF ~available
    THEN AdapterRaises("ImportError", "Unavailable", << >>, x)
    ELSE IF _convert_ticker_to_tushare(ticker) = NoSymbol
    THEN AdapterRaises("Exception", "NotFound", << >>, x)
    ELSE AdapterRaises("Exception", "Unavailable", << >>, x)

(***************************************************************************)
(* The state: the module flags, one MultiSourceDataFetcher, np.random, the *)
(* process's hash salt, one call of fetch_stock_data in progress with what *)
(* it has done so far (events), and one call of _standardize_data.         *)
(***************************************************************************)
VARIABLES
    AKSHARE_AVAILABLE,  \* module flag: import akshare succeeded
    TUSHARE_AVAILABLE,  \* module flag: import tushare succeeded
    data_sources,       \* self.data_sources: the adapters' names, in priority order
    hash_salt,          \* the per-process salt of str hashes
    rng,                \* the state of np.random
    pc,                 \* where the call in progress stands
    ticker,             \* fetch_stock_data's ticker, upper-cased
    period,             \* fetch_stock_data's period
    source_idx,         \* the position of the outer loop in data_sources
    attempt,            \* the inner loop's attempt
    events,             \* what the call has done so far, in order
    result,             \* what the call returned
    raw,                \* the table handed to _standardize_data
    standardized,       \* the outcome of _standardize_data
    stock_names,        \* CompleteStockNameManager.stock_names: code -> name
    stock_industries,   \* CompleteStockNameManager.stock_industries: code -> industry
    cache_date,         \* CompleteStockNameManager.cache_date
    cache_file,         \* the file stock_names_cache.pkl
    now,                \* datetime.now(), in days
    name_cache,         \* StockNameManager.name_cache: code -> name
    safe                \* the call of safe_get_stock_data in progress, if any

\* the variables of the name manager
managerVars ==
    << stock_names, stock_industries, cache_date, cache_file, now, name_cache >>

vars ==
    << AKSHARE_AVAILABLE, TUSHARE_AVAILABLE, data_sources, hash_salt, rng, pc,
       ticker, period, source_idx, attempt, events, result, raw, standardized,
       managerVars, safe >>

\* no value
Nothing == [none |-> TRUE]

(***************************************************************************)
(* MultiSourceDataFetcher.__init__ and fetch_stock_data                    *)
(***************************************************************************)
\* the two appends in the other order
InitDataSourcesTushareFirst(akshare_available, tushare_available) ==
    (IF tushare_available THEN << "tushare" >> ELSE << >>)
      \o (IF akshare_available THEN << "akshare" >> ELSE << >>)

\* line 43-51: akshare first, then tushare, each only if its import succeeded
InitDataSources(akshare_available, tushare_available) ==
    (IF akshare_available THEN << "akshare" >> ELSE << >>)
      \o (IF tushare_available THEN << "tushare" >> ELSE << >>)

\* line 76: fetch_func(ticker, period) for the adapter of the given name
FetchFunc(source_name, t, p, up, x) ==
    IF source_name = "akshare"
    THEN _fetch_akshare_data(AKSHARE_AVAILABLE, t, p, up, x)
    ELSE _fetch_tushare_data(TUSHARE_AVAILABLE, t, p, x)

\* the classes derived from Exception among those the model raises
ExceptionClasses ==
    {"Exception", "ValueError", "ImportError", "AttributeError", "KeyError",
     "TypeError"}

\* a narrowed except clause: except ValueError
CaughtOnlyValueError(exc) == exc = "ValueError"

\* a narrowed except clause: only the exception the adapters re-raise
CaughtOnlyReraised(exc) == exc = "Exception"

\* line 84: except Exception
Caught(exc) == exc \in ExceptionClasses

\* line 78: stock_data is not None and not stock_data.empty
IsUsable(stock_data) == stock_data # NoneTable /\ ~IsEmpty(stock_data)

\* the backoff left out: no sleep between attempts
ShouldSleepNever(k) == FALSE

\* the test of line 87 left out: a sleep after every failed attempt
ShouldSleepAlways(k) == k < max_retries

\* line 87: a sleep follows every failed attempt but the last
ShouldSleep(k) == k < max_retries - 1

\* the exponent counted from one: base_delay * (2 ** (attempt + 1))
DelayFromOne(k) == base_delay * (2 ^ (k + 1))

\* line 88: base_delay * (2 ** attempt)
Delay(k) == base_delay * (2 ^ k)

\* another name for generated data
FallbackTagSynthetic == "synthetic"

\* line 94: the source name of generated data
FallbackTag == "mock_data"

\* the loops without the return of line 80: a success is followed by the
\* next attempt
NextPositionNoReturn(returned, idx, k) ==
    IF k + 1 < max_retries THEN [pc |-> "trying", source_idx |-> idx, attempt |-> k + 1]
    ELSE IF idx < Len(data_sources) THEN [pc |-> "trying", source_idx |-> idx + 1, attempt |-> 0]
    ELSE [pc |-> "exhausted", source_idx |-> idx, attempt |-> k]

\* the inner loop one attempt too long: range(self.max_retries + 1)
NextPositionOneMore(returned, idx, k) ==
    IF returned THEN [pc |-> "returned", source_idx |-> idx, attempt |-> k]
    ELSE IF k + 1 < max_retries + 1
    THEN [pc |-> "trying", source_idx |-> idx, attempt |-> k + 1]
    ELSE IF idx < Len(data_sources) THEN [pc |-> "trying", source_idx |-> idx + 1, attempt |-> 0]
    ELSE [pc |-> "exhausted", source_idx |-> idx, attempt |-> k]

\* line 69-91, the two loops: where the call stands after attempt k of the
\* adapter at position idx, which returned (line 80) or was caught (line 84)
NextPosition(returned, idx, k) ==
    IF returned THEN [pc |-> "returned", source_idx |-> idx, attempt |-> k]
    ELSE IF k + 1 < max_retries THEN [pc |-> "trying", source_idx |-> idx, attempt |-> k + 1]
    ELSE IF idx < Len(data_sources) THEN [pc |-> "trying", source_idx |-> idx + 1, attempt |-> 0]
    ELSE [pc |-> "exhausted", source_idx |-> idx, attempt |-> k]

\* line 73-82, the try body after the adapter call r: the possible outcomes,
\* a returned series or a raised exception
TryBody(r) ==
    IF r.raised
    THEN {[ok |-> FALSE, exc |-> r.exc, failure |-> r.failure, rng |-> r.rng]}
    ELSE IF ~IsUsable(r.table)
    THEN {[ok |-> FALSE, exc |-> "ValueError", failure |-> "Empty", rng |-> r.rng]}
    ELSE {IF o.ok THEN o
          ELSE [ok |-> FALSE, exc |-> o.exc, failure |-> "Schema", rng |-> o.rng]
            : o \in _standardize_data(r.table, r.rng)}

\* what one attempt adds to the events: the call, its upstream calls, then the
\* success, or the failure and the sleep
AttemptEvents(source_name, k, r, o) ==
    << [ev |-> "call", src |-> source_name, attempt |-> k] >>
      \o r.upstream
      \o (IF o.ok
          THEN << [ev |-> "success", src |-> source_name, attempt |-> k] >>
          ELSE << [ev |-> "fail", src |-> source_name, attempt |-> k,
                   exc |-> o.exc, failure |-> o.failure] >>
                 \o (IF Caught(o.exc) /\ ShouldSleep(k)
                     THEN << [ev |-> "sleep", delay |-> Delay(k)] >>
                     ELSE << >>))

(***************************************************************************)
(* The inputs the model draws from.                                        *)
(***************************************************************************)
\* the sequences over S of length at most n
SeqsUpTo(S, n) == UNION {[1..k -> S] : k \in 0..n}

\* the tickers fetch_stock_data is called with: a Shanghai code, a Shenzhen
\* code with a lower-case suffix, a mapped name in lower case, a code with a
\* leading blank, a code no exchange prefix matches, and a ticker neither
\* adapter can translate
\* the calls fetch_stock_data(ticker, period) the model makes
Calls ==
    { << <<"6","0","0","5","1","9">>, "max" >>,
      << <<"0","0","0","0","0","1",".","s","z">>, "1y" >>,
      << <<"m","o","u","t","a","i">>, "max" >>,
      << <<" ","6","0","0","5","1","9">>, "5y" >>,
      << <<"9","9","9","9","9","9">>, "3mo" >>,
      << <<"A","B","C","1","2","3">>, "1y" >> }

HashSalts == {0, 1}

\* states of np.random before the call; from the second, the next draw of a
\* volume is the largest one
RngSeeds == {0, 10895238}

\* the column lists ak.stock_zh_a_hist may answer with: the full list, one
\* without the volume, one without the close
UpstreamFull ==
    << "riqi", "kaipan", "shoupan", "zuigao", "zuidi", "chengjiaoliang", "chengjiaoe" >>

UpstreamNoVolume == << "riqi", "kaipan", "shoupan", "zuigao", "zuidi" >>

UpstreamNoClose == << "riqi", "kaipan", "zuigao", "zuidi", "chengjiaoliang" >>

\* the cell of row r in an upstream column, for the date d
UpstreamCell(col, r, d) ==
    CASE col = "riqi"           -> d
      [] col = "kaipan"         -> 10 + r
      [] col = "shoupan"        -> 13 - r
      [] col = "zuigao"         -> 15
      [] col = "zuidi"          -> 9
      [] col = "chengjiaoliang" -> 1000 * r
      [] OTHER                  -> 7

\* the table ak.stock_zh_a_hist answers with: dates come as text
UpstreamTable(cols, dates) ==
    [index_name |-> NoName,
     index_dtype |-> "int64",
     cols |-> cols,
     dtypes |-> [i \in DOMAIN cols |-> IF cols[i] = "riqi" THEN "object" ELSE "float64"],
     rows |-> [r \in DOMAIN dates |->
                 [idx |-> r - 1,
                  cells |-> [i \in DOMAIN cols |-> UpstreamCell(cols[i], r, dates[r])]]]]

\* what ak.stock_zh_a_hist may do when called: raise, or answer with a table:
\* the full columns with at most MaxRows rows (none at all, unsorted, with
\* equal dates, with a date that cannot be parsed), or rows of good dates
\* without the volume or without the close
UpstreamOutcomes ==
    {[raises |-> TRUE, table |-> NoneTable]}
      \cup {[raises |-> FALSE, table |-> UpstreamTable(UpstreamFull, dates)] :
              dates \in SeqsUpTo(0..MaxDate, MaxRows)}
      \cup {[raises |-> FALSE, table |-> UpstreamTable(cols, dates)] :
              cols \in {UpstreamNoVolume, UpstreamNoClose},
              dates \in {<< 1 >>, << MaxDate, 1 >>}}

\* no cache file, and None for a date
NoFile == [exists |-> FALSE]

NoDate == -1

\* no CompleteStockNameManager has been constructed
ManagerAbsent ==
    /\ stock_names = << >>
    /\ stock_industries = << >>
    /\ cache_date = NoDate
    /\ cache_file = NoFile
    /\ now = 0
    /\ name_cache = << >>

(***************************************************************************)
(* The actions of fetch_stock_data.                                        *)
(***************************************************************************)
Init ==
    /\ ManagerAbsent
    /\ AKSHARE_AVAILABLE \in BOOLEAN
    /\ TUSHARE_AVAILABLE \in BOOLEAN
    /\ data_sources = InitDataSources(AKSHARE_AVAILABLE, TUSHARE_AVAILABLE)
    /\ hash_salt \in HashSalts
    /\ rng = 0
    /\ pc = "idle"
    /\ ticker = << >>
    /\ period = ""
    /\ source_idx = 0
    /\ attempt = 0
    /\ events = << >>
    /\ result = Nothing
    /\ raw = Nothing
    /\ standardized = Nothing
    /\ safe = Nothing

\* line 55-69: fetch_stock_data(t, p) is called on the fetcher: the ticker is
\* upper-cased and the outer loop starts, or falls through at once when
\* there is no adapter
Begin(t, p) ==
    /\ pc = "idle"
    /\ ticker' = StrUpper(t)
    /\ period' = p
    /\ events' = << >>
    /\ result' = Nothing
    /\ IF data_sources = << >>
       THEN pc' = "exhausted" /\ source_idx' = 0
       ELSE pc' = "trying" /\ source_idx' = 1
    /\ attempt' = 0
    /\ UNCHANGED << AKSHARE_AVAILABLE, TUSHARE_AVAILABLE, data_sources, hash_salt,
                    rng, raw, standardized, managerVars, safe >>

\* line 72-90: one attempt of the current adapter: the call, then the return
\* of the standardized table, or the except clause with its sleep
AttemptWith(r) ==
    \E o \in TryBody(r) :
        /\ events' = events \o AttemptEvents(data_sources[source_idx], attempt, r, o)
        /\ rng' = o.rng
        /\ IF o.ok
           THEN /\ result' = [series |-> o.table, tag |-> data_sources[source_idx]]
                /\ pc' = NextPosition(TRUE, source_idx, attempt).pc
                /\ source_idx' = NextPosition(TRUE, source_idx, attempt).source_idx
                /\ attempt' = NextPosition(TRUE, source_idx, attempt).attempt
           ELSE IF Caught(o.exc)
           THEN /\ result' = result
                /\ pc' = NextPosition(FALSE, source_idx, attempt).pc
                /\ source_idx' = NextPosition(FALSE, source_idx, attempt).source_idx
                /\ attempt' = NextPosition(FALSE, source_idx, attempt).attempt
           ELSE /\ result' = [raised |-> o.exc]
                /\ pc' = "raised"
                /\ UNCHANGED << source_idx, attempt >>

Attempt ==
    /\ pc = "trying"
    /\ \E up \in UpstreamOutcomes :
         AttemptWith(FetchFunc(data_sources[source_idx], ticker, period, up, rng))
    /\ UNCHANGED << AKSHARE_AVAILABLE, TUSHARE_AVAILABLE, data_sources, hash_salt,
                    ticker, period, raw, standardized, managerVars, safe >>

\* line 92-94: every adapter failed: the mock data is generated and returned;
\* an exception of _generate_mock_data would reach the caller
Fallback ==
    /\ pc = "exhausted"
    /\ \E o \in _generate_mock_data(ticker, hash_salt) :
         /\ events' = Append(events, [ev |-> "mock"])
         /\ rng' = o.rng
         /\ IF o.ok
            THEN result' = [series |-> o.table, tag |-> FallbackTag] /\ pc' = "returned"
            ELSE result' = [raised |-> o.exc] /\ pc' = "raised"
    /\ UNCHANGED << AKSHARE_AVAILABLE, TUSHARE_AVAILABLE, data_sources, hash_salt,
                    ticker, period, source_idx, attempt, raw, standardized, managerVars, safe >>

Next ==
    \/ \E c \in Calls : Begin(c[1], c[2])
    \/ Attempt
    \/ Fallback

Spec == Init /\ [][Next]_vars

(***************************************************************************)
(* _standardize_data on its own: the raw tables it is applied to.          *)
(***************************************************************************)
\* the cell of row r in a raw column, from the row's date, open and close
RawCell(col, r, d, o, c) ==
    CASE lower(col) = "date"   -> d
      [] lower(col) = "open"   -> o
      [] lower(col) = "close"  -> c
      [] lower(col) = "high"   -> 90 + r
      [] lower(col) = "low"    -> 1
      [] lower(col) = "volume" -> 500 + r
      [] OTHER                 -> 7

RawDtype(col, date_dtype) ==
    CASE lower(col) = "date"   -> date_dtype
      [] lower(col) = "volume" -> "int64"
      [] OTHER                 -> "float64"

\* a raw table: its index is unnamed (0..n-1) or carries the dates under the
\* name index_name; row r has the date dates[r], the open opens[r] and the
\* close closes[r]
RawTable(index_name, cols, date_dtype, dates, opens, closes) ==
    [index_name |-> index_name,
     index_dtype |-> IF index_name = NoName THEN "int64" ELSE date_dtype,
     cols |-> cols,
     dtypes |-> [i \in DOMAIN cols |-> RawDtype(cols[i], date_dtype)],
     rows |-> [r \in DOMAIN dates |->
                 [idx |-> IF index_name = NoName THEN r - 1 ELSE dates[r],
                  cells |-> [i \in DOMAIN cols |->
                               RawCell(cols[i], r, dates[r], opens[r], closes[r])]]]]

\* the column lists of the raw tables: every required column absent, present
\* in some letter case or (date, close) present twice; with and without
\* columns the canonical schema does not know
ColumnShapes ==
    {d \o o \o h \o l \o c \o v \o e :
       d \in {<< >>, << "Date" >>, << "date" >>, << "DATE" >>, << "date", "Date" >>},
       o \in {<< >>, << "Open" >>, << "open" >>},
       h \in {<< >>, << "High" >>},
       l \in {<< >>, << "low" >>},
       c \in {<< >>, << "Close" >>, << "CLOSE" >>, << "close", "Close" >>},
       v \in {<< >>, << "Volume" >>, << "volume" >>},
       e \in {<< >>, << "Amount" >>, << "y", "ds" >>}}

\* the closes of n rows: each row has a close of its own
RowCloses(n) == [r \in 1..n |-> MaxPrice + r]

\* raw tables of every column shape and index name, with two rows out of
\* order, with a date text that cannot be parsed, or with one date twice
ShapeTables ==
    {RawTable(ix, cols, body[1], body[2], << 1, MaxPrice >>, RowCloses(2)) :
       ix \in {NoName, "Date", "date"},
       cols \in ColumnShapes,
       body \in { << "object", << MaxDate, 1 >> >>,
                  << "object", << 1, BadDate >> >>,
                  << "datetime64", << 1, 1 >> >> }}

\* raw tables with the canonical columns, with lower-case columns and no
\* volume, or with the dates in the index, of every row content within the
\* bounds: text dates (parsable or not) or parsed ones, in any order
RowTables ==
    UNION {{RawTable(shape[1], shape[2], "object", dates, opens, RowCloses(n)) :
              shape \in { << NoName, << "Date", "Open", "High", "Low", "Close", "Volume" >> >>,
                          << NoName, << "close", "open", "low", "high", "date", "Amount" >> >>,
                          << "Date", << "Open", "High", "Low", "Close", "Volume" >> >> },
              dates \in [1..n -> 0..MaxDate],
              opens \in [1..n -> 1..MaxPrice]}
           \cup
           {RawTable(NoName, << "Date", "Open", "High", "Low", "Close" >>,
                     "datetime64", dates, opens, RowCloses(n)) :
              dates \in [1..n -> 1..MaxDate],
              opens \in [1..n -> 1..MaxPrice]}
             : n \in 0..MaxRows}

RawTables == ShapeTables \cup RowTables

\* the hash salts of the processes _generate_mock_data is called in: with
\* the last one the walk of '600519' comes down to the floor
WalkSalts == HashSalts \cup {5}

\* the tickers _generate_mock_data is called with
MockTickers == {c[1] : c \in Calls}

\* a call of _standardize_data on a raw table, or a call of
\* _generate_mock_data on a ticker, about to be made
InitNorm ==
    /\ ManagerAbsent
    /\ AKSHARE_AVAILABLE = TRUE
    /\ TUSHARE_AVAILABLE = TRUE
    /\ data_sources = InitDataSources(AKSHARE_AVAILABLE, TUSHARE_AVAILABLE)
    /\ rng \in RngSeeds
    /\ \/ /\ pc = "standardize"
          /\ raw \in RawTables
          /\ ticker = << >>
          /\ hash_salt = 0
       \/ /\ pc = "generate"
          /\ raw = NoneTable
          /\ ticker \in MockTickers
          /\ hash_salt \in WalkSalts
    /\ period = ""
    /\ source_idx = 0
    /\ attempt = 0
    /\ events = << >>
    /\ result = Nothing
    /\ standardized = Nothing
    /\ safe = Nothing

\* _standardize_data(raw, ticker) is called and returns or raises
Standardize ==
    /\ pc = "standardize"
    /\ \E o \in _standardize_data(raw, rng) :
         /\ standardized' = o
         /\ rng' = o.rng
    /\ pc' = "standardized"
    /\ UNCHANGED << AKSHARE_AVAILABLE, TUSHARE_AVAILABLE, data_sources, hash_salt,
                    ticker, period, source_idx, attempt, events, result, raw,
                    managerVars, safe >>

\* _generate_mock_data(ticker) is called and returns what _standardize_data
\* made of the generated frame
Generate ==
    /\ pc = "generate"
    /\ \E o \in _generate_mock_data(ticker, hash_salt) :
         /\ standardized' = o
         /\ rng' = o.rng
    /\ pc' = "generated"
    /\ UNCHANGED << AKSHARE_AVAILABLE, TUSHARE_AVAILABLE, data_sources, hash_salt,
                    ticker, period, source_idx, attempt, events, result, raw,
                    managerVars, safe >>

NextNorm == Standardize \/ Generate

SpecNorm == InitNorm /\ [][NextNorm]_vars

(***************************************************************************)
(* CompleteStockNameManager (all_stock_names.py): the name directory.      *)
(* Codes and names are sequences of characters; a dict is a function on    *)
(* its keys.  Chinese texts are written in pinyin: daima for the column    *)
(* of codes, mingcheng for the column of names, gupiao- for the prefix of  *)
(* the default name.                                                       *)
(***************************************************************************)
CACHE_EXPIRE_DAYS == 7

\* an assignment that stores nothing
DictPutNothing(d, k, v) == d

\* d[k] = v
DictPut(d, k, v) == [x \in DOMAIN d \cup {k} |-> IF x = k THEN v ELSE d[x]]

\* d.update(e)
DictUpdate(d, e) ==
    IF DOMAIN e = {} THEN d
    ELSE [x \in DOMAIN d \cup DOMAIN e |-> IF x \in DOMAIN e THEN e[x] ELSE d[x]]

\* a padding that always puts width zeros in front
ZFillByWidth(s, width) == [i \in 1..width |-> "0"] \o s

\* s.zfill(width) of a string of digits
ZFill(s, width) ==
    IF Len(s) >= width THEN s ELSE [i \in 1..(width - Len(s)) |-> "0"] \o s

\* the key of a ticker taken as typed, line 175 left out
TickerKeyAsTyped(t) ==
    LET cut == IF HasDot(t) THEN SplitDotFirst(t) ELSE t
    IN  IF StrIsDigit(cut) THEN ZFill(cut, 6) ELSE cut

\* line 175-183: the key a ticker is looked up under
TickerKey(t) ==
    LET stripped == StrUpper(StrStrip(t))
        cut      == IF HasDot(stripped) THEN SplitDotFirst(stripped) ELSE stripped
    IN  IF StrIsDigit(cut) THEN ZFill(cut, 6) ELSE cut

\* line 151-163
_guess_industry_by_code(code) ==
    IF StartsWithAny(code, {<< "6", "0" >>}) THEN "HuShiZhuBan"
    ELSE IF StartsWithAny(code, {<< "0", "0" >>}) THEN "ShenShiZhuBan"
    ELSE IF StartsWithAny(code, {<< "3", "0" >>}) THEN "ChuangYeBan"
    ELSE IF StartsWithAny(code, {<< "6", "8" >>}) THEN "KeChuangBan"
    ELSE "QiTa"

\* Python's None where a name is expected, and the truth value of a name
NoneName == << "<None>" >>

Truthy(name) == name # NoneName /\ name # << >>

\* get_stock_name, had it returned None where no name is found
DefaultNameNone(key) == NoneName

\* line 201: the default name of a key
DefaultName(key) == << "g", "u", "p", "i", "a", "o", "-" >> \o key

\* line 205-216: the body of _fetch_single_stock_name's try, given what
\* ak.stock_individual_info_em does when called (info): the exception it
\* ends in or "none", the name it returns, and whether akshare was called.
\* Without akshare the import of line 206 raises and nothing is called.
SingleNameBody(available, info) ==
    IF ~available THEN [exc |-> "ImportError", name |-> NoneName, called |-> FALSE]
    ELSE IF info.raises THEN [exc |-> "Exception", name |-> NoneName, called |-> TRUE]
    ELSE IF info.rows = << >> THEN [exc |-> "none", name |-> NoneName, called |-> TRUE]
    \* stock_info['item'] raises KeyError
    ELSE IF ~info.has_item THEN [exc |-> "KeyError", name |-> NoneName, called |-> TRUE]
    ELSE LET name_rows == {i \in DOMAIN info.rows : info.rows[i][1] = "gupiao jiancheng"}
         IN  IF name_rows = {}
             THEN [exc |-> "none", name |-> NoneName, called |-> TRUE]
             ELSE [exc |-> "none",
                   name |-> info.rows[CHOOSE i \in name_rows :
                                         \A j \in name_rows : i <= j][2],
                   called |-> TRUE]

\* line 203-220, _fetch_single_stock_name(ticker): an exception of the body
\* is caught by the except Exception of line 217 and None is returned
_fetch_single_stock_name(available, key, info) ==
    LET body == SingleNameBody(available, info)
    IN  IF body.exc # "none" /\ Caught(body.exc)
        THEN [body EXCEPT !.exc = "none", !.name = NoneName]
        ELSE body

\* line 198: the bare except of get_stock_name
CaughtBare(exc) == TRUE

\* get_stock_name, had it stored the live name and no industry with it
get_stock_nameNoIndustry(names, industries, available, t, info) ==
    LET key == TickerKey(t)
        live == _fetch_single_stock_name(available, key, info)
    IN  IF key \in DOMAIN names /\ Truthy(names[key])
        THEN [ret |-> names[key], from |-> "directory", called |-> FALSE,
              raised |-> "none", names |-> names, industries |-> industries]
        ELSE IF live.exc = "none" /\ Truthy(live.name)
        THEN [ret |-> live.name, from |-> "live", called |-> live.called,
              raised |-> "none",
              names |-> DictPut(names, key, live.name),
              industries |-> industries]
        ELSE [ret |-> DefaultName(key), from |-> "default", called |-> live.called,
              raised |-> "none", names |-> names, industries |-> industries]

\* line 165-201, get_stock_name(t): what it returns or raises, where the
\* name came from, whether akshare was called, and the two dicts afterwards
get_stock_name(names, industries, available, t, info) ==
    LET key == TickerKey(t)
        live == _fetch_single_stock_name(available, key, info)
    IN  IF key \in DOMAIN names /\ Truthy(names[key])
        THEN [ret |-> names[key], from |-> "directory", called |-> FALSE,
              raised |-> "none", names |-> names, industries |-> industries]
        ELSE IF live.exc # "none" /\ ~CaughtBare(live.exc)
        THEN [ret |-> NoneName, from |-> "nowhere", called |-> live.called,
              raised |-> live.exc, names |-> names, industries |-> industries]
        ELSE IF live.exc = "none" /\ Truthy(live.name)
        THEN [ret |-> live.name, from |-> "live", called |-> live.called,
              raised |-> "none",
              names |-> DictPut(names, key, live.name),
              industries |-> DictPut(industries, key, _guess_industry_by_code(key))]
        ELSE [ret |-> DefaultName(key), from |-> "default", called |-> live.called,
              raised |-> "none", names |-> names, industries |-> industries]

\* line 222-239, get_stock_industry(t)
get_stock_industry(industries, t) ==
    IF TickerKey(t) \in DOMAIN industries
    THEN industries[TickerKey(t)]
    ELSE _guess_industry_by_code(TickerKey(t))

\* a test that shuts its eyes to the case of the letters
ContainsAnyCase(name, keyword) ==
    \E i \in 1..(Len(name) - Len(keyword) + 1) :
        StrUpper(SubSeq(name, i, i + Len(keyword) - 1)) = StrUpper(keyword)

\* line 254: name_keyword in name
Contains(name, keyword) ==
    \E i \in 1..(Len(name) - Len(keyword) + 1) :
        SubSeq(name, i, i + Len(keyword) - 1) = keyword

\* the codes of a set in the order the loop of line 253 meets them (the
\* order of insertion, which the functions of this model do not keep)
RECURSIVE InOrder(_)
InOrder(codes) ==
    IF codes = {} THEN << >>
    ELSE LET code == CHOOSE c \in codes : TRUE
         IN  << code >> \o InOrder(codes \ {code})

\* line 255-259: the entry of a code
SearchEntry(names, industries, code) ==
    [code |-> code, name |-> names[code],
     industry |-> get_stock_industry(industries, code)]

\* line 241-261, search_stocks_by_name(keyword)
search_stocks_by_name(names, industries, keyword) ==
    LET hits == InOrder({code \in DOMAIN names : Contains(names[code], keyword)})
    IN  [i \in DOMAIN hits |-> SearchEntry(names, industries, hits[i])] \o << >>

(***************************************************************************)
(* stock_names.py: the table of well-known codes, the StockNameManager     *)
(* that starts from it, and the module's get_stock_name, which asks the    *)
(* CompleteStockNameManager first.                                         *)
(***************************************************************************)
\* line 21-91, A_STOCK_NAMES: three of its codes, names in pinyin initials
A_STOCK_NAMES ==
    [k \in {<< "0", "0", "0", "0", "0", "1" >>,
            << "6", "0", "0", "5", "1", "9" >>,
            << "0", "0", "0", "8", "5", "8" >>} |->
        IF k = << "0", "0", "0", "0", "0", "1" >> THEN << "P", "A", "Y", "H" >>
        ELSE IF k = << "6", "0", "0", "5", "1", "9" >> THEN << "G", "Z", "M", "T" >>
        ELSE << "W", "L", "Y" >>]

\* line 164-168 of StockNameManager.get_stock_name: the key of a ticker,
\* which is not padded with zeros
NameCacheKey(t) ==
    IF HasDot(StrUpper(StrStrip(t)))
    THEN SplitDotFirst(StrUpper(StrStrip(t)))
    ELSE StrUpper(StrStrip(t))

\* line 204-230, _fetch_name_from_akshare(ticker): the body of
\* _fetch_single_stock_name under the same except Exception
_fetch_name_from_akshare(available, key, info) ==
    _fetch_single_stock_name(available, key, info)

\* line 171-186 of StockNameManager.get_stock_name, the key and the live
\* lookup given
NameOfKey(cache, key, live) ==
    IF key \in DOMAIN cache /\ Truthy(cache[key])
    THEN [ret |-> cache[key], from |-> "table", called |-> FALSE,
          raised |-> "none", name_cache |-> cache]
    ELSE IF live.exc # "none" /\ ~CaughtBare(live.exc)
    THEN [ret |-> NoneName, from |-> "nowhere", called |-> live.called,
          raised |-> live.exc, name_cache |-> cache]
    ELSE IF live.exc = "none" /\ Truthy(live.name)
    THEN [ret |-> live.name, from |-> "live", called |-> live.called,
          raised |-> "none", name_cache |-> DictPut(cache, key, live.name)]
    ELSE [ret |-> DefaultName(key), from |-> "default", called |-> live.called,
          raised |-> "none", name_cache |-> cache]

\* line 154-186, StockNameManager.get_stock_name(t)
StockNameManager_get_stock_name(cache, available, t, info) ==
    NameOfKey(cache, NameCacheKey(t),
              _fetch_name_from_akshare(available, NameCacheKey(t), info))

\* the number of calls of akshare a lookup made
AkshareCalls(called) == IF called THEN 1 ELSE 0

\* line 276 and 280 of get_stock_name: the name of the complete manager is
\* returned, or the StockNameManager is asked
NameOfBoth(cache, complete, other) ==
    IF complete.raised # "none"
    THEN [ret |-> NoneName, from |-> "nowhere", calls |-> AkshareCalls(complete.called),
          raised |-> complete.raised, names |-> complete.names,
          industries |-> complete.industries, name_cache |-> cache,
          asked_table |-> FALSE]
    ELSE IF Truthy(complete.ret) /\ ~StartsWithAny(complete.ret, {DefaultName(<< >>)})
    THEN [ret |-> complete.ret, from |-> complete.from,
          calls |-> AkshareCalls(complete.called), raised |-> "none",
          names |-> complete.names, industries |-> complete.industries,
          name_cache |-> cache, asked_table |-> FALSE]
    ELSE [ret |-> other.ret,
          from |-> IF other.from = "live" THEN "table live" ELSE other.from,
          calls |-> AkshareCalls(complete.called) + AkshareCalls(other.called),
          raised |-> other.raised,
          names |-> complete.names, industries |-> complete.industries,
          name_cache |-> other.name_cache, asked_table |-> TRUE]

\* a get_stock_name that looks into the StockNameManager first and asks the
\* complete manager when that one has only the default name
stock_names_get_stock_nameTableFirst(names, industries, cache, available, t, info, info2) ==
    IF StockNameManager_get_stock_name(cache, FALSE, t, info2).from = "table"
    THEN NameOfBoth(cache, [ret |-> << >>, from |-> "default", called |-> FALSE,
                     raised |-> "none", names |-> names, industries |-> industries],
                    StockNameManager_get_stock_name(cache, FALSE, t, info2))
    ELSE NameOfBoth(cache, get_stock_name(names, industries, available, t, info),
                    StockNameManager_get_stock_name(cache, available, t, info2))

\* stock_names.py line 269-280, get_stock_name(t): akshare answers info to
\* the complete manager and info2 to the StockNameManager, when asked
stock_names_get_stock_name(names, industries, cache, available, t, info, info2) ==
    NameOfBoth(cache, get_stock_name(names, industries, available, t, info),
               StockNameManager_get_stock_name(cache, available, t, info2))

\* the cache file when its bytes do not unpickle
CorruptFile == [exists |-> TRUE, corrupt |-> TRUE]

\* line 50-62, _save_cache(): the file afterwards.  The write succeeds, or
\* open() raises and the file is as it was, or pickle.dump raises after open()
\* has truncated the file; the exception is caught in each case.
SaveOutcomes == {"saved", "unwritable", "truncated"}

_save_cache(file, names, industries, today, outcome) ==
    CASE outcome = "saved" ->
            [exists |-> TRUE, corrupt |-> FALSE, names |-> names,
             industries |-> industries, date |-> today]
      [] outcome = "unwritable" -> file
      [] outcome = "truncated" -> CorruptFile

\* a load without the resets of line 46-48: a file that fails after its
\* names were read leaves them in the manager
_load_cacheNoReset(file) ==
    IF ~file.exists
    THEN [names |-> << >>, industries |-> << >>, date |-> NoDate]
    ELSE IF file.corrupt
    THEN [names |-> DictPut(<< >>, << "6", "0", "0", "5", "1", "9" >>, << "M", "T" >>),
          industries |-> << >>, date |-> NoDate]
    ELSE [names |-> file.names, industries |-> file.industries, date |-> file.date]

\* line 34-48, _load_cache() on the fields __init__ has just emptied
_load_cache(file) ==
    IF ~file.exists \/ file.corrupt
    THEN [names |-> << >>, industries |-> << >>, date |-> NoDate]
    ELSE [names |-> file.names, industries |-> file.industries, date |-> file.date]

\* the test, had it taken an age of CACHE_EXPIRE_DAYS for expired
_is_cache_expiredAtTTL(date, today) ==
    IF date = NoDate THEN TRUE ELSE today >= date + CACHE_EXPIRE_DAYS

\* line 64-70
_is_cache_expired(date, today) ==
    IF date = NoDate THEN TRUE ELSE today > date + CACHE_EXPIRE_DAYS

\* a listing that raised
ListingRaises == [raises |-> TRUE]

\* df[['daima', 'mingcheng']] of line 83: KeyError without the two columns
SelectCodeName(df) ==
    IF df.raises THEN df
    ELSE IF ~({"daima", "mingcheng"} \subseteq {df.cols[i] : i \in DOMAIN df.cols})
    THEN ListingRaises
    ELSE df

\* line 95-98: the columns after the renaming
ListingColumns(df) ==
    LET have == {df.cols[i] : i \in DOMAIN df.cols}
    IN  IF {"code", "name"} \subseteq have
        THEN [i \in DOMAIN df.cols |->
                 IF df.cols[i] = "code" THEN "daima"
                 ELSE IF df.cols[i] = "name" THEN "mingcheng" ELSE df.cols[i]]
        ELSE IF {"gupiao daima", "gupiao mingcheng"} \subseteq have
        THEN [i \in DOMAIN df.cols |->
                 IF df.cols[i] = "gupiao daima" THEN "daima"
                 ELSE IF df.cols[i] = "gupiao mingcheng" THEN "mingcheng"
                 ELSE df.cols[i]]
        ELSE df.cols

\* line 102-106 (and 121-125): the entries the rows of a listing put into
\* all_stocks, a later row replacing an earlier one of the same code
ListingEntries(cols, rows) ==
    IF ~({"daima", "mingcheng"} \subseteq {cols[i] : i \in DOMAIN cols}) THEN << >>
    ELSE LET c == CHOOSE i \in DOMAIN cols : cols[i] = "daima"
             n == CHOOSE i \in DOMAIN cols : cols[i] = "mingcheng"
             code(r) == ZFill(rows[r][c], 6)
             name(r) == StrStrip(rows[r][n])
             kept == {r \in DOMAIN rows :
                         code(r) # << >> /\ name(r) # << >> /\ StrIsDigit(code(r))}
             last(k) == CHOOSE r \in kept :
                            code(r) = k /\ \A q \in kept : code(q) = k => q <= r
         IN  IF kept = {} THEN << >>
             ELSE [k \in {code(r) : r \in kept} |-> name(last(k))]

\* the loop, had it kept the names all_stocks has already
AddListingKeepEarlier(all_stocks, df) ==
    IF df.raises \/ df.rows = << >> THEN all_stocks
    ELSE DictUpdate(ListingEntries(ListingColumns(df), df.rows), all_stocks)

\* line 88-112: one round of the loop over stock_list_methods
AddListing(all_stocks, df) ==
    IF df.raises \/ df.rows = << >> THEN all_stocks
    ELSE DictUpdate(all_stocks, ListingEntries(ListingColumns(df), df.rows))

\* line 115-129: the backup listing
AddBackup(all_stocks, df) ==
    IF all_stocks # << >> \/ df.raises \/ df.rows = << >> THEN all_stocks
    ELSE ListingEntries(df.cols, df.rows)

\* line 86-129: all_stocks, from what stock_info_a_code_name returns (first),
\* what stock_zh_a_spot_em returns (second) and what it returns when called
\* again (backup)
AllStocks(first, second, backup) ==
    AddBackup(AddListing(AddListing(<< >>, first), SelectCodeName(second)), backup)

\* line 91-106: what each of the two stock_list_methods gave, in their order;
\* nothing when akshare is missing or the fetch is not run
Listed(asked, bulk) ==
    IF asked
    THEN << ListingEntries(IF bulk.first.raises THEN << >>
                           ELSE ListingColumns(bulk.first),
                           IF bulk.first.raises THEN << >> ELSE bulk.first.rows),
            ListingEntries(IF SelectCodeName(bulk.second).raises THEN << >>
                           ELSE ListingColumns(bulk.second),
                           IF SelectCodeName(bulk.second).raises THEN << >>
                           ELSE bulk.second.rows) >>
    ELSE << << >>, << >> >>

\* the loop of line 136-139 left out: the new codes get no industry
WithGuessedIndustriesNone(industries, all_stocks) == industries

\* line 135-139
WithGuessedIndustries(industries, all_stocks) ==
    IF all_stocks = << >> THEN industries
    ELSE [k \in DOMAIN industries \cup DOMAIN all_stocks |->
             IF k \in DOMAIN industries THEN industries[k]
             ELSE _guess_industry_by_code(k)]

\* line 141 after line 133-139: the cache is saved with the dicts as updated
SaveUpdated(file, today, save, all_stocks, new_names, new_industries) ==
    [names |-> new_names, industries |-> new_industries,
     file |-> _save_cache(file, new_names, new_industries, today, save),
     fetched |-> all_stocks, raised |-> "none",
     printed |-> << Cardinality(DOMAIN all_stocks) >>]

\* the update, had it saved the cache also when nothing was gathered
UpdateCacheAlwaysSaves(names, industries, file, today, save, all_stocks) ==
    SaveUpdated(file, today, save, all_stocks,
                DictUpdate(names, all_stocks),
                WithGuessedIndustries(industries, all_stocks))

\* line 131-144: the two dicts and the file after the listings gave
\* all_stocks, and the count the message of line 142 tells (none in the
\* message of line 144)
UpdateCache(names, industries, file, today, save, all_stocks) ==
    IF all_stocks = << >>
    THEN [names |-> names, industries |-> industries, file |-> file,
          fetched |-> << >>, raised |-> "none", printed |-> << >>]
    ELSE SaveUpdated(file, today, save, all_stocks,
                     DictUpdate(names, all_stocks),
                     WithGuessedIndustries(industries, all_stocks))

\* a fetch that lets its exceptions through
FetchCaughtNothing(exc) == FALSE

\* line 146-149: except ImportError, except Exception
FetchCaught(exc) == exc = "ImportError" \/ Caught(exc)

\* line 72-149, _fetch_all_stock_names(): the two dicts and the file
\* afterwards, what was gathered, the exception that left the method and
\* the count it printed.  Without akshare the import of line 75 raises
\* ImportError, caught at line 146.
_fetch_all_stock_names(available, names, industries, file, today, bulk) ==
    IF available
    THEN UpdateCache(names, industries, file, today, bulk.save,
                     AllStocks(bulk.first, bulk.second, bulk.backup))
    ELSE [names |-> names, industries |-> industries, file |-> file,
          fetched |-> << >>,
          raised |-> IF FetchCaught("ImportError") THEN "none" ELSE "ImportError",
          printed |-> << >>]

\* what a method without a return statement returns
NoneValue == [kind |-> "None"]

\* refresh_cache, had it fetched over the dicts as they are
ClearedKept(d) == d

\* line 269-271: what refresh_cache makes of a dict before it fetches
Cleared(d) == << >>

\* line 267-273, refresh_cache()
refresh_cache(available, names, industries, file, today, bulk) ==
    _fetch_all_stock_names(available, Cleared(names), Cleared(industries),
                           file, today, bulk)

(***************************************************************************)
(* The name manager's inputs: the cache file it finds, the tickers it is   *)
(* asked about and what akshare answers.                                   *)
(***************************************************************************)
\* the number of calls made on the manager after its construction
MaxOps == 2

\* the day the manager is constructed on
StartDay == 10

Code600519 == << "6", "0", "0", "5", "1", "9" >>

Code000001 == << "0", "0", "0", "0", "0", "1" >>

Code000002 == << "0", "0", "0", "0", "0", "2" >>

Code300750 == << "3", "0", "0", "7", "5", "0" >>

\* a cache file an earlier run of the manager wrote on the given day
WrittenFile(day) ==
    [exists |-> TRUE, corrupt |-> FALSE,
     names |-> [k \in {Code600519, Code000002} |->
                   IF k = Code600519 THEN << "M", "T" >> ELSE << "V", "K" >>],
     industries |-> [k \in {Code600519, Code000002} |-> _guess_industry_by_code(k)],
     date |-> day]

\* a cache file of the day before with no names in it, which _load_cache
\* accepts (line 40-42 read it with defaults)
EmptyFile ==
    [exists |-> TRUE, corrupt |-> FALSE, names |-> << >>, industries |-> << >>,
     date |-> StartDay - 1]

CacheFiles ==
    {NoFile, CorruptFile, EmptyFile,
     WrittenFile(StartDay - CACHE_EXPIRE_DAYS - 1),
     WrittenFile(StartDay - CACHE_EXPIRE_DAYS)}

\* the tickers get_stock_name is asked about
NameQueries ==
    {Code600519, << " ", "1", ".", "s", "z" >>, << "a", "b", "c" >>}

\* the tickers get_stock_industry is asked about
IndustryQueries ==
    {<< "1" >>, << "1", " ", ".", "s", "z" >>, << "a", "b", "c" >>}

\* the keywords search_stocks_by_name is asked about
SearchKeywords == {<< "K" >>, << "a" >>, << "V", "K" >>}

\* what ak.stock_individual_info_em answers
InfoOutcomes ==
    {[raises |-> TRUE],
     [raises |-> FALSE, has_item |-> TRUE, rows |-> << >>],
     [raises |-> FALSE, has_item |-> FALSE,
      rows |-> << << "gupiao jiancheng", << "L", "V" >> >> >>],
     [raises |-> FALSE, has_item |-> TRUE,
      rows |-> << << "zongshizhi", << "9" >> >> >>],
     [raises |-> FALSE, has_item |-> TRUE,
      rows |-> << << "zongshizhi", << "9" >> >>,
                  << "gupiao jiancheng", << "L", "V" >> >> >>],
     [raises |-> FALSE, has_item |-> TRUE,
      rows |-> << << "gupiao jiancheng", << >> >> >>]}

\* what ak.stock_info_a_code_name answers
FirstListings ==
    {ListingRaises,
     [raises |-> FALSE, cols |-> << "code", "name" >>, rows |-> << >>],
     [raises |-> FALSE, cols |-> << "code", "name" >>,
      rows |-> << << Code600519, << "M", "T" >> >>,
                  << << "1" >>, << " ", "P", "A", " " >> >> >>]}

\* what ak.stock_zh_a_spot_em answers
SecondListings ==
    {ListingRaises,
     [raises |-> FALSE, cols |-> << "xuhao", "symbol", "title" >>,
      rows |-> << << 1, Code600519, << "K", "W" >> >> >>],
     [raises |-> FALSE, cols |-> << "xuhao", "daima", "mingcheng" >>,
      rows |-> << << 1, Code600519, << "K", "W" >> >>,
                  << 2, Code300750, << "C", "A" >> >>,
                  << 3, << "s", "h", "6", "8", "8" >>, << "Z", "X" >> >>,
                  << 4, Code000002, << " " >> >> >>]}

\* what ak.stock_zh_a_spot_em answers when the backup method calls it again
BackupListings ==
    {df \in SecondListings : df.raises \/ \E i \in DOMAIN df.cols : df.cols[i] = "daima"}

Bulks ==
    [first : FirstListings, second : SecondListings, backup : BackupListings,
     save : SaveOutcomes]

\* the answers a bulk fetch gets to see: the backup method is run only when
\* the two listings gave nothing (line 115), the cache is saved only when
\* something was gathered (line 132)
BulksAsked ==
    {b \in Bulks :
        /\ AddListing(AddListing(<< >>, b.first), SelectCodeName(b.second)) # << >>
              => b.backup = ListingRaises
        /\ AllStocks(b.first, b.second, b.backup) = << >> => b.save = "saved"}

(***************************************************************************)
(* The name manager's operations.                                          *)
(***************************************************************************)
\* the variables of the fetcher, which the manager leaves alone
fetcherVars ==
    << AKSHARE_AVAILABLE, TUSHARE_AVAILABLE, data_sources, hash_salt, rng,
       ticker, period, source_idx, attempt, result, raw, standardized, safe >>

\* before line 277: the module has not been imported yet
InitNames ==
    /\ AKSHARE_AVAILABLE \in BOOLEAN
    /\ TUSHARE_AVAILABLE = FALSE
    /\ data_sources = << >>
    /\ hash_salt = 0
    /\ rng = 0
    /\ pc = "unconstructed"
    /\ ticker = << >>
    /\ period = ""
    /\ source_idx = 0
    /\ attempt = 0
    /\ events = << >>
    /\ result = Nothing
    /\ raw = Nothing
    /\ standardized = Nothing
    /\ safe = Nothing
    /\ stock_names = << >>
    /\ stock_industries = << >>
    /\ cache_date = NoDate
    /\ cache_file \in CacheFiles
    /\ now = StartDay
    /\ name_cache = A_STOCK_NAMES

\* line 22-32: __init__ leaves the manager with the outcome o of its fetch
ConstructWith(loaded, expired, o, listed) ==
    /\ pc = "unconstructed"
    /\ stock_names' = o.names
    /\ stock_industries' = o.industries
    /\ cache_date' = loaded.date
    /\ cache_file' = o.file
    /\ events' = Append(events, [ev |-> "construct", expired |-> expired,
                                 fetches |-> IF expired THEN 1 ELSE 0,
                                 fetched |-> o.fetched, listed |-> listed,
                                 raised |-> o.raised])
    /\ pc' = "ready"
    /\ UNCHANGED << fetcherVars, now, name_cache >>

\* line 30-32 of __init__, the cache loaded
ConstructLoaded(loaded, expired, bulk) ==
    ConstructWith(loaded, expired,
                  IF expired
                  THEN _fetch_all_stock_names(AKSHARE_AVAILABLE, loaded.names,
                                              loaded.industries, cache_file, now, bulk)
                  ELSE [names |-> loaded.names, industries |-> loaded.industries,
                        file |-> cache_file, fetched |-> << >>, raised |-> "none",
                        printed |-> << >>],
                  Listed(expired /\ AKSHARE_AVAILABLE, bulk))

\* line 21-32, __init__(): the cache is loaded, and fetched anew when it is
\* empty or expired
Construct(bulk) ==
    ConstructLoaded(_load_cache(cache_file),
                    _is_cache_expired(_load_cache(cache_file).date, now), bulk)

\* akshare's answer in the event of a call that did not ask
NotAsked == [asked |-> FALSE]

\* the calls made on the manager since its construction
OpsDone == Len(events) - 1

\* line 186-201: get_stock_name leaves the manager with its outcome o
GetNameWith(t, info, o) ==
    /\ pc = "ready"
    /\ OpsDone < MaxOps
    /\ stock_names' = o.names
    /\ stock_industries' = o.industries
    /\ events' = Append(events, [ev |-> "get_name", arg |-> t, ret |-> o.ret,
                                 from |-> o.from, called |-> o.called,
                                 raised |-> o.raised,
                                 info |-> IF o.called THEN info ELSE NotAsked])
    /\ UNCHANGED << fetcherVars, pc, cache_date, cache_file, now, name_cache >>

\* line 165-201: get_stock_name(t) is called, akshare answering info when asked
GetName(t, info) ==
    GetNameWith(t, info, get_stock_name(stock_names, stock_industries,
                                        AKSHARE_AVAILABLE, t, info))

\* line 270-273: refresh_cache leaves the manager with the outcome o of its fetch
RefreshWith(o, listed) ==
    /\ pc = "ready"
    /\ OpsDone < MaxOps
    /\ stock_names' = o.names
    /\ stock_industries' = o.industries
    /\ cache_date' = NoDate
    /\ cache_file' = o.file
    /\ events' = Append(events, [ev |-> "refresh", before |-> stock_names,
                                 fetched |-> o.fetched, listed |-> listed,
                                 raised |-> o.raised, printed |-> o.printed,
                                 ret |-> NoneValue])
    /\ UNCHANGED << fetcherVars, pc, now, name_cache >>

\* line 267-273: refresh_cache() is called
Refresh(bulk) ==
    RefreshWith(refresh_cache(AKSHARE_AVAILABLE, stock_names, stock_industries,
                              cache_file, now, bulk),
                Listed(AKSHARE_AVAILABLE, bulk))

\* line 222-239: get_stock_industry(t) is called
GetIndustry(t) ==
    /\ pc = "ready"
    /\ OpsDone < MaxOps
    /\ events' = Append(events, [ev |-> "get_industry", arg |-> t,
                                 ret |-> get_stock_industry(stock_industries, t)])
    /\ UNCHANGED << fetcherVars, pc, managerVars >>

\* line 241-261: search_stocks_by_name(keyword) is called
Search(keyword) ==
    /\ pc = "ready"
    /\ OpsDone < MaxOps
    /\ events' = Append(events, [ev |-> "search", arg |-> keyword,
                                 ret |-> search_stocks_by_name(stock_names,
                                                               stock_industries,
                                                               keyword)])
    /\ UNCHANGED << fetcherVars, pc, managerVars >>

NextNames ==
    \/ \E bulk \in BulksAsked : Construct(bulk)
    \/ \E t \in NameQueries, info \in InfoOutcomes : GetName(t, info)
    \/ \E bulk \in BulksAsked : Refresh(bulk)

SpecNames == InitNames /\ [][NextNames]_vars

\* the manager with its queries: akshare answers the bulk fetch with
\* nothing, with the first listing alone or with both listings, and the
\* single lookup with an exception or with a name
BulksFew ==
    {b \in BulksAsked :
        /\ b.first.raises \/ b.first.rows # << >>
        /\ b.second.raises \/ ~b.first.raises
        /\ b.backup.raises
        /\ b.save # "truncated"}

InfosFew == {info \in InfoOutcomes : info.raises \/ Len(info.rows) = 2}

\* tickers asked for by name: two spellings of the code 000001 and a ticker
\* that is no number
NameSpellings ==
    {<< " ", "1", ".", "s", "z" >>, << "0", "1" >>, << "a", "b", "c" >>}

NextQueries ==
    \/ \E bulk \in BulksFew : Construct(bulk)
    \/ \E t \in NameSpellings, info \in InfosFew : GetName(t, info)
    \/ \E bulk \in BulksFew : Refresh(bulk)
    \/ \E t \in IndustryQueries : GetIndustry(t)
    \/ \E keyword \in SearchKeywords : Search(keyword)

SpecQueries == InitNames /\ [][NextQueries]_vars

\* the manager constructed where no cache file is, or one that holds an
\* empty directory
InitFresh == InitNames /\ cache_file \in {NoFile, EmptyFile}

SpecFresh == InitFresh /\ [][NextQueries]_vars

\* stock_names.py line 269-280: get_stock_name leaves the two managers with
\* its outcome o
LookUpNameWith(t, info, info2, o) ==
    /\ pc = "ready"
    /\ OpsDone < MaxOps
    /\ stock_names' = o.names
    /\ stock_industries' = o.industries
    /\ name_cache' = o.name_cache
    /\ events' = Append(events, [ev |-> "name", arg |-> t, ret |-> o.ret,
                                 from |-> o.from, calls |-> o.calls,
                                 raised |-> o.raised,
                                 asked_table |-> o.asked_table,
                                 info |-> IF o.calls >= 1 THEN info ELSE NotAsked,
                                 info2 |-> IF o.calls = 2 THEN info2 ELSE NotAsked])
    /\ UNCHANGED << fetcherVars, pc, cache_date, cache_file, now >>

\* stock_names.py line 269-280: get_stock_name(t) is called
LookUpName(t, info, info2) ==
    LookUpNameWith(t, info, info2,
                   stock_names_get_stock_name(stock_names, stock_industries, name_cache,
                                              AKSHARE_AVAILABLE, t, info, info2))

\* stock_names.py line 94-144, INDUSTRY_MAPPING: three of its codes, a bank
\* and two distillers
INDUSTRY_MAPPING ==
    [k \in {Code000001, Code600519, << "0", "0", "0", "8", "5", "8" >>} |->
        IF k = Code000001 THEN "YinHang" ELSE "BaiJiu"]

\* stock_names.py line 188-202, StockNameManager.get_stock_industry: the key
\* is not padded with zeros, the default is '其他'
StockNameManager_get_stock_industry(industry_cache, t) ==
    IF NameCacheKey(t) \in DOMAIN industry_cache
    THEN industry_cache[NameCacheKey(t)]
    ELSE "QiTa"

\* stock_names.py line 283-294, get_stock_industry(ticker): the answer of
\* the complete directory unless it is empty or '其他', then the static table
stock_names_get_stock_industry(industries, industry_cache, t) ==
    IF get_stock_industry(industries, t) \notin {"", "QiTa"}
    THEN get_stock_industry(industries, t)
    ELSE StockNameManager_get_stock_industry(industry_cache, t)

\* stock_names.py line 283-294: get_stock_industry(t) is called; the static
\* manager's industry_cache is the copy of INDUSTRY_MAPPING its constructor
\* made (line 152)
LookUpIndustry(t) ==
    /\ pc = "ready"
    /\ OpsDone < MaxOps
    /\ events' = Append(events,
                        [ev |-> "industry", arg |-> t,
                         stored |-> TickerKey(t) \in DOMAIN stock_industries,
                         ret |-> stock_names_get_stock_industry(stock_industries,
                                                                INDUSTRY_MAPPING, t)])
    /\ UNCHANGED << fetcherVars, pc, managerVars >>

\* the tickers the module's get_stock_name is asked about: two codes of
\* A_STOCK_NAMES and one that no table and no listing has
TableQueries == {Code600519, Code000001, << "9", "9", "9" >>}

\* the two name managers behind the module's get_stock_name
NextTable ==
    \/ \E bulk \in BulksFew : Construct(bulk)
    \/ \E t \in TableQueries, info \in InfoOutcomes, info2 \in InfosFew :
          LookUpName(t, info, info2)
    \/ \E t \in TableQueries : LookUpIndustry(t)

SpecTable == InitNames /\ [][NextTable]_vars

(***************************************************************************)
(* safe_get_stock_data(ticker, period, fallback_to_mock): the wrapper      *)
(* around get_stock_data.  Python checks no annotation, so the ticker is   *)
(* a str, or an object without upper() such as None, or one that has no    *)
(* hash either, such as a list.                                            *)
(***************************************************************************)
StrArg(text) == [kind |-> "str", text |-> text]

ListArg == [kind |-> "list"]

\* line 64, ticker.upper(): raises AttributeError when the ticker has no
\* such method
UpperRaises(arg) == arg.kind # "str"

\* line 313, hash(ticker): raises TypeError for an unhashable object
HashRaises(arg) == arg.kind = "list"

\* line 313: hash(ticker) of an object that has one; the hash of None is a
\* number of the process as that of the empty str is
ObjectHash(arg, salt) ==
    IF arg.kind = "str" THEN StrHash(arg.text, salt) ELSE StrHash(<< >>, salt)

\* line 306-334, _generate_mock_data(ticker) for a ticker of any kind, np.random
\* being in state x
MockForArg(arg, salt, x) ==
    IF HashRaises(arg)
    THEN {[ok |-> FALSE, exc |-> "TypeError", rng |-> x]}
    ELSE MockFromDraws(RngStates(ObjectHash(arg, salt), 5 * MockDays - 1), MockDays)

\* line 371: except Exception
SafeCaught(exc) == exc \in ExceptionClasses

\* a call of safe_get_stock_data that has called get_stock_data
SafeCalled(arg, p, fb) ==
    [arg |-> arg, period |-> p, fallback |-> fb, at |-> "called",
     acquired |-> "", ret |-> Nothing, exc |-> ""]

\* line 354-366: safe_get_stock_data(arg, p, fb) is called
SafeCall(arg, p, fb) ==
    /\ pc = "idle"
    /\ safe = Nothing
    /\ safe' = SafeCalled(arg, p, fb)
    /\ UNCHANGED << AKSHARE_AVAILABLE, TUSHARE_AVAILABLE, data_sources, hash_salt,
                    rng, pc, ticker, period, source_idx, attempt, events, result,
                    raw, standardized, managerVars >>

\* line 367 and 349-350: get_stock_data makes a fetcher and calls
\* fetch_stock_data with a str
SafeAcquire ==
    /\ safe # Nothing
    /\ safe.at = "called"
    /\ ~UpperRaises(safe.arg)
    /\ Begin(safe.arg.text, safe.period)

\* line 367, 349-350 and 64: fetch_stock_data raises at ticker.upper()
SafeAcquireRaises ==
    /\ safe # Nothing
    /\ safe.at = "called"
    /\ pc = "idle"
    /\ UpperRaises(safe.arg)
    /\ pc' = "raised"
    /\ result' = [raised |-> "AttributeError"]
    /\ UNCHANGED << AKSHARE_AVAILABLE, TUSHARE_AVAILABLE, data_sources, hash_salt,
                    rng, ticker, period, source_idx, attempt, events,
                    raw, standardized, managerVars, safe >>

\* line 367-369: get_stock_data returned and its table is returned
SafeReturn ==
    /\ safe # Nothing
    /\ safe.at = "called"
    /\ pc = "returned"
    /\ safe' = [safe EXCEPT !.at = "returned", !.acquired = "returned",
                            !.ret = result.series]
    /\ UNCHANGED << AKSHARE_AVAILABLE, TUSHARE_AVAILABLE, data_sources, hash_salt,
                    rng, pc, ticker, period, source_idx, attempt, events, result,
                    raw, standardized, managerVars >>

\* line 371-379 with the outcome o of _generate_mock_data at hand
SafeExceptWith(o) ==
    /\ rng' = o.rng
    /\ safe' = IF o.ok
               THEN [safe EXCEPT !.at = "returned", !.acquired = "raised",
                                 !.ret = o.table]
               ELSE [safe EXCEPT !.at = "raised", !.acquired = "raised",
                                 !.exc = o.exc]

\* line 371-379: get_stock_data raised: the exception is caught, and the
\* mock data of a new fetcher or None is returned; an exception of
\* _generate_mock_data, called in the handler, reaches the caller
SafeExcept ==
    /\ safe # Nothing
    /\ safe.at = "called"
    /\ pc = "raised"
    /\ IF ~SafeCaught(result.raised)
       THEN /\ safe' = [safe EXCEPT !.at = "raised", !.acquired = "raised",
                                    !.exc = result.raised]
            /\ rng' = rng
       ELSE IF safe.fallback
       THEN \E o \in MockForArg(safe.arg, hash_salt, rng) : SafeExceptWith(o)
       ELSE /\ safe' = [safe EXCEPT !.at = "returned", !.acquired = "raised",
                                    !.ret = NoneTable]
            /\ rng' = rng
    /\ UNCHANGED << AKSHARE_AVAILABLE, TUSHARE_AVAILABLE, data_sources, hash_salt,
                    pc, ticker, period, source_idx, attempt, events, result,
                    raw, standardized, managerVars >>

\* the calls of safe_get_stock_data the model makes
SafeArgs ==
    {StrArg(<< "6", "0", "0", "5", "1", "9" >>),
     StrArg(<< "A", "B", "C", "1", "2", "3" >>),
     NoneValue, ListArg}

NextSafe ==
    \/ \E arg \in SafeArgs, fb \in BOOLEAN : SafeCall(arg, "max", fb)
    \/ SafeAcquire
    \/ SafeAcquireRaises
    \/ Attempt
    \/ Fallback
    \/ SafeReturn
    \/ SafeExcept

SpecSafe == Init /\ [][NextSafe]_vars

(***************************************************************************)
(* What a call has done, read off its events.                              *)
(***************************************************************************)
IsCall(e, src) == e.ev = "call" /\ e.src = src

IsFail(e, src) == e.ev = "fail" /\ e.src = src

\* the positions of the calls of adapter src
CallsOf(src) == {i \in DOMAIN events : IsCall(events[i], src)}

\* the positions of the failed attempts of adapter src
FailsOf(src) == {i \in DOMAIN events : IsFail(events[i], src)}

\* the positions of the events of a kind
EventsOf(kind) == {i \in DOMAIN events : events[i].ev = kind}

\* the names in self.data_sources
SourceNames == {data_sources[i] : i \in DOMAIN data_sources}

\* the position of an adapter in self.data_sources
PositionOf(src) == CHOOSE i \in DOMAIN data_sources : data_sources[i] = src

\* the event after position i is the call of adapter src for attempt k
NextIsCall(i, src, k) ==
    /\ i + 1 <= Len(events)
    /\ events[i + 1] = [ev |-> "call", src |-> src, attempt |-> k]

\* the call is over and has returned to its caller
HasReturned == pc = "returned"

(***************************************************************************)
(* C1: fetch_stock_data is total: whatever the adapters do on each attempt *)
(* (raise, answer with no rows, answer with a table _standardize_data      *)
(* rejects, answer with a good table), no exception reaches the caller,    *)
(* and what is returned is a pair of a table and a source name.            *)
(***************************************************************************)
C1_Total ==
    /\ pc # "raised"
    /\ pc \in {"idle", "trying", "exhausted", "returned"}
    /\ HasReturned =>
         /\ DOMAIN result = {"series", "tag"}
         /\ result.series # NoneTable
         /\ ~IsEmpty(result.series)
         /\ result.tag \in STRING

\* both adapters failed on every attempt, in each of the ways akshare can
\* fail, and the call returned all the same
C1_Witness ==
    /\ HasReturned
    /\ Cardinality(FailsOf("akshare")) = max_retries
    /\ Cardinality(FailsOf("tushare")) = max_retries
    /\ \E i, j, k \in FailsOf("akshare") :
         /\ events[i].failure = "Transient"
         /\ events[j].failure = "Empty"
         /\ events[k].failure = "Schema"

(***************************************************************************)
(* C2: first success wins: once an attempt has a usable table that         *)
(* standardizes, the call returns it under that adapter's name, and        *)
(* nothing follows the success: no adapter call, no sleep, no mock data.   *)
(***************************************************************************)
C2_FirstSuccessWins ==
    /\ \A i \in EventsOf("success") :
         /\ i = Len(events)
         /\ HasReturned
         /\ result.tag = events[i].src
         /\ events[i - 1].ev \in {"call", "upstream"}
    /\ (HasReturned /\ result.tag \in SourceNames) =>
         /\ events[Len(events)].ev = "success"
         /\ EventsOf("mock") = {}

\* akshare succeeded on a retry while tushare was still to be tried
C2_Witness ==
    /\ HasReturned
    /\ data_sources = << "akshare", "tushare" >>
    /\ result.tag = "akshare"
    /\ Cardinality(FailsOf("akshare")) = 1
    /\ CallsOf("tushare") = {}

(***************************************************************************)
(* C3: the adapters are tried in the order fixed at construction, akshare  *)
(* before tushare: an adapter is called only after every adapter before it *)
(* in the list has failed all its attempts, and the list stays as          *)
(* constructed throughout the call.                                        *)
(***************************************************************************)
C3_PriorityOrder ==
    /\ data_sources \in {<< >>, << "akshare" >>, << "tushare" >>, << "akshare", "tushare" >>}
    /\ ("akshare" \in SourceNames) = AKSHARE_AVAILABLE
    /\ ("tushare" \in SourceNames) = TUSHARE_AVAILABLE
    /\ \A i \in EventsOf("call") :
         /\ events[i].src \in SourceNames
         /\ \A j \in 1..(PositionOf(events[i].src) - 1) :
              /\ Cardinality({f \in FailsOf(data_sources[j]) : f < i}) = max_retries
              /\ \A c \in CallsOf(data_sources[j]) : c < i
    /\ \A i \in EventsOf("success") :
         \A j \in (PositionOf(events[i].src) + 1)..Len(data_sources) :
            CallsOf(data_sources[j]) = {}

\* tushare was called, after akshare had failed three times
C3_Witness ==
    /\ CallsOf("tushare") # {}
    /\ Cardinality(FailsOf("akshare")) = max_retries

(***************************************************************************)
(* C4: the retry ceiling: no adapter is called more than max_retries times *)
(* in a call; every failed attempt counts, also one whose upstream call    *)
(* answered with no rows; and an adapter is given up only after exactly    *)
(* max_retries failed attempts.                                            *)
(***************************************************************************)
C4_RetryCeiling ==
    /\ \A src \in {"akshare", "tushare"} :
         /\ Cardinality(CallsOf(src)) <= max_retries
         \* the attempts are numbered 0, 1, 2: each failure uses one up
         /\ \A i \in CallsOf(src) :
              events[i].attempt = Cardinality({f \in FailsOf(src) : f < i})
    /\ \A i \in EventsOf("call") :
         \A j \in 1..(PositionOf(events[i].src) - 1) :
            Cardinality(FailsOf(data_sources[j])) = max_retries
    /\ (pc = "exhausted" \/ EventsOf("mock") # {}) =>
         \A src \in SourceNames : Cardinality(FailsOf(src)) = max_retries

\* akshare was given up after three upstream answers without rows
C4_Witness ==
    /\ pc = "exhausted"
    /\ Cardinality(FailsOf("akshare")) = max_retries
    /\ \A i \in FailsOf("akshare") : events[i].failure = "Empty"
    /\ Cardinality(EventsOf("upstream")) = max_retries

(***************************************************************************)
(* C5: the backoff: the failed attempt k of an adapter is followed by a    *)
(* sleep of base_delay * 2^k seconds and then by the next attempt of the   *)
(* same adapter (5 s, then 10 s); the last attempt of an adapter is not    *)
(* followed by a sleep, neither before the next adapter nor before the     *)
(* mock data.                                                              *)
(***************************************************************************)
C5_Backoff ==
    /\ \A i \in EventsOf("fail") :
         IF events[i].attempt < max_retries - 1
         THEN /\ i + 1 <= Len(events)
              /\ events[i + 1] = [ev |-> "sleep",
                                  delay |-> base_delay * (2 ^ events[i].attempt)]
              /\ events[i + 1].delay = (IF events[i].attempt = 0 THEN 5 ELSE 10)
              /\ (i + 2 <= Len(events) \/ HasReturned) =>
                    NextIsCall(i + 1, events[i].src, events[i].attempt + 1)
         ELSE (i + 1 <= Len(events)) => events[i + 1].ev \in {"call", "mock"}
    /\ \A i \in EventsOf("sleep") : i > 1 /\ events[i - 1].ev = "fail"

\* a call that slept 5 s and 10 s on akshare, went to tushare without a
\* sleep, and from tushare's last attempt to the mock data without one
C5_Witness ==
    /\ HasReturned
    /\ \E i \in FailsOf("akshare") :
         /\ events[i].attempt = max_retries - 1
         /\ NextIsCall(i, "tushare", 0)
    /\ \E i \in FailsOf("tushare") :
         /\ events[i].attempt = max_retries - 1
         /\ events[i + 1].ev = "mock"
    /\ [ev |-> "sleep", delay |-> 5] \in {events[i] : i \in DOMAIN events}
    /\ [ev |-> "sleep", delay |-> 10] \in {events[i] : i \in DOMAIN events}

(***************************************************************************)
(* C6, as the specification states it: when every adapter has used up its  *)
(* attempts the result carries the source tag "synthetic", and a returned  *)
(* tag is always the name of a configured adapter or "synthetic".          *)
(***************************************************************************)
C6_TagSynthetic ==
    HasReturned =>
      /\ result.tag \in SourceNames \cup {"synthetic"}
      /\ (EventsOf("mock") # {}) => result.tag = "synthetic"

(***************************************************************************)
(* C6, amended: when every adapter has used up its attempts without a      *)
(* success, the mock data are generated and returned under the source tag  *)
(* "mock_data"; a returned tag is always the name of a configured adapter  *)
(* or "mock_data", and "mock_data" is returned in no other case.           *)
(***************************************************************************)
C6_TagMockData ==
    /\ HasReturned =>
         /\ result.tag \in SourceNames \cup {"mock_data"}
         /\ (\A src \in SourceNames : Cardinality(FailsOf(src)) = max_retries)
              <=> result.tag = "mock_data"
         /\ (result.tag = "mock_data") <=> (EventsOf("mock") = {Len(events)})
         /\ (result.tag = "mock_data") => Len(result.series.rows) = MockDays
    /\ pc = "exhausted" =>
         /\ \A src \in SourceNames : Cardinality(FailsOf(src)) = max_retries
         /\ EventsOf("success") = {}

\* mock data returned after both adapters used up their attempts
C6_Witness ==
    /\ HasReturned
    /\ data_sources = << "akshare", "tushare" >>
    /\ Cardinality(EventsOf("fail")) = 2 * max_retries
    /\ result.tag = "mock_data"
    /\ EventsOf("mock") # {}

(***************************************************************************)
(* C7, as the specification states it: an attempt that fails because the   *)
(* adapter is unavailable or does not know the symbol is not retried: no   *)
(* sleep follows it and the adapter is not called again.                   *)
(***************************************************************************)
C7_NotRetried ==
    \A i \in EventsOf("fail") :
       events[i].failure \in {"Unavailable", "NotFound"} =>
          /\ \A c \in CallsOf(events[i].src) : c < i
          /\ (i + 1 <= Len(events)) => events[i + 1].ev # "sleep"

(***************************************************************************)
(* C7, amended: an attempt that fails because the adapter is unavailable   *)
(* or does not know the symbol is retried like any other failed attempt:   *)
(* attempt k < max_retries - 1 is followed by a sleep of base_delay * 2^k  *)
(* seconds and by attempt k + 1 of the same adapter, and the adapter is    *)
(* left only after attempt max_retries - 1.                                *)
(***************************************************************************)
C7_Retried ==
    \A i \in EventsOf("fail") :
       events[i].failure \in {"Unavailable", "NotFound"} =>
          IF events[i].attempt < max_retries - 1
          THEN /\ i + 1 <= Len(events)
               /\ events[i + 1] = [ev |-> "sleep",
                                   delay |-> base_delay * (2 ^ events[i].attempt)]
               /\ (i + 2 <= Len(events) \/ pc # "trying") =>
                     NextIsCall(i + 1, events[i].src, events[i].attempt + 1)
          ELSE /\ Cardinality(FailsOf(events[i].src)) = max_retries
               /\ \A c \in CallsOf(events[i].src) : c < i

\* tushare was unavailable (no API token) on an attempt, slept 5 s, was
\* unavailable again, slept 10 s, and was unavailable on the last attempt
C7_Witness ==
    /\ HasReturned
    /\ Cardinality({i \in FailsOf("tushare") : events[i].failure = "Unavailable"}) = max_retries
    /\ \E i \in FailsOf("tushare") :
         /\ events[i].attempt = 0
         /\ events[i + 1] = [ev |-> "sleep", delay |-> 5]
         /\ events[i + 3].failure = "Unavailable"
         /\ events[i + 4] = [ev |-> "sleep", delay |-> 10]

(***************************************************************************)
(* C8: a table the adapter returned and _standardize_data rejects is a     *)
(* failed attempt like any other: the exception does not reach the caller, *)
(* the attempt is followed by the sleep and the next attempt, or after the *)
(* last attempt by the next adapter or the mock data.                      *)
(***************************************************************************)
C8_SchemaContained ==
    /\ pc # "raised"
    /\ \A i \in EventsOf("fail") :
         events[i].failure = "Schema" =>
            /\ events[i].exc \in {"ValueError", "AttributeError"}
            /\ events[i - 1].ev = "upstream"
            /\ IF events[i].attempt < max_retries - 1
               THEN /\ i + 1 <= Len(events)
                    /\ events[i + 1].ev = "sleep"
                    /\ (i + 2 <= Len(events) \/ pc # "trying") =>
                          NextIsCall(i + 1, events[i].src, events[i].attempt + 1)
               ELSE (i + 1 <= Len(events) \/ pc \notin {"trying", "exhausted"}) =>
                      IF PositionOf(events[i].src) < Len(data_sources)
                      THEN NextIsCall(i, data_sources[PositionOf(events[i].src) + 1], 0)
                      ELSE events[i + 1].ev = "mock"

\* _standardize_data rejected akshare's table on the first and on the last
\* attempt; the call went on to tushare and returned
C8_Witness ==
    /\ HasReturned
    /\ \E i, j \in FailsOf("akshare") :
         /\ events[i].failure = "Schema" /\ events[i].attempt = 0
         /\ events[j].failure = "Schema" /\ events[j].attempt = max_retries - 1
    /\ CallsOf("tushare") # {}

\* the steps a call under way may still take: the adapter calls left of the
\* max_retries per configured adapter, and the generation of the mock data
StepsLeft ==
    max_retries * Len(data_sources) - Cardinality(EventsOf("call"))
      + (IF EventsOf("mock") = {} THEN 1 ELSE 0)

\* the call is under way: it has begun and has neither returned nor raised
UnderWay == pc \in {"trying", "exhausted"}

(***************************************************************************)
(* C9: provided every adapter call returns, fetch_stock_data terminates:   *)
(* every step of a call under way (an adapter call that returns or raises, *)
(* or the generation of the mock data) takes one from a bounded number of  *)
(* steps left, and with no step left the call has returned; the call makes *)
(* at most max_retries adapter calls per configured adapter and sleeps at  *)
(* most max_retries - 1 times per configured adapter; and an adapter call  *)
(* makes at most one upstream call.                                        *)
(***************************************************************************)
C9_Terminates ==
    /\ [](/\ Cardinality(EventsOf("call")) <= max_retries * Len(data_sources)
          /\ Cardinality(EventsOf("sleep")) <= (max_retries - 1) * Len(data_sources)
          /\ \A i \in EventsOf("upstream") : events[i - 1].ev = "call"
          /\ StepsLeft >= 0
          /\ UnderWay => StepsLeft > 0
          /\ StepsLeft = 0 => HasReturned
          /\ pc \in {"idle", "returned"} \/ UnderWay)
    /\ [][UnderWay => StepsLeft' < StepsLeft]_vars

\* a call that used up the whole budget: six adapter calls, four sleeps
C9_Witness ==
    /\ HasReturned
    /\ Len(data_sources) = 2
    /\ Cardinality(EventsOf("call")) = max_retries * Len(data_sources)
    /\ Cardinality(EventsOf("sleep")) = (max_retries - 1) * Len(data_sources)
    /\ Cardinality(EventsOf("upstream")) = max_retries

(***************************************************************************)
(* What _standardize_data returned, and the canonical columns.             *)
(***************************************************************************)
CanonicalColumns ==
    {"Date", "Open", "High", "Low", "Close", "Volume",
     "Adj. Close", "Adj. Open", "Daily Change"}

\* _standardize_data has returned a table
Standardized == pc = "standardized" /\ standardized.ok

\* the columns of a table
ColumnSet(t) == {t.cols[i] : i \in DOMAIN t.cols}

(***************************************************************************)
(* C10, as the specification states it: the columns of a table that        *)
(* _standardize_data returns are exactly Date, Open, High, Low, Close,     *)
(* Volume, Adj. Close, Adj. Open and Daily Change.                         *)
(***************************************************************************)
C10_ExactlyCanonical ==
    Standardized => ColumnSet(standardized.table) = CanonicalColumns

(***************************************************************************)
(* C10, amended: a table that _standardize_data returns has each of Date,  *)
(* Open, High, Low, Close, Volume, Adj. Close, Adj. Open and Daily Change  *)
(* once, the two columns ds and y besides, and every other column of the   *)
(* input under the name it had; it has no further column.                  *)
(***************************************************************************)
C10_CanonicalAndMore ==
    Standardized =>
      /\ CanonicalColumns \subseteq ColumnSet(standardized.table)
      /\ {"ds", "y"} \subseteq ColumnSet(standardized.table)
      /\ ColumnSet(standardized.table) \ (CanonicalColumns \cup {"ds", "y"})
           = {c \in ColumnSet(raw) : lower(c) \notin {"date", "open", "high", "low",
                                                     "close", "volume", "ds", "y"}}
      /\ Len(standardized.table.cols) = Cardinality(ColumnSet(standardized.table))

\* a table with lower-case columns, a column the schema does not know and
\* no volume was standardized
C10_Witness ==
    /\ Standardized
    /\ "Amount" \in ColumnSet(raw)
    /\ "close" \in ColumnSet(raw)
    /\ \A c \in ColumnSet(raw) : lower(c) # "volume"
    /\ Len(standardized.table.rows) = MaxRows

(***************************************************************************)
(* The rows of a table.                                                    *)
(***************************************************************************)
\* the rows of t are in non-decreasing order of Date
DatesAscend(t) ==
    \A r \in 1..(Len(t.rows) - 1) :
       t.rows[r].cells[ColumnAt(t, "Date")] <= t.rows[r + 1].cells[ColumnAt(t, "Date")]

\* the rows of t are labelled 0..n-1 by an unnamed index
RowsRenumbered(t) ==
    /\ t.index_name = NoName
    /\ \A r \in DOMAIN t.rows : t.rows[r].idx = r - 1

(***************************************************************************)
(* C11: every series fetch_stock_data returns, from an adapter or from the *)
(* mock data, has its rows in non-decreasing order of Date and labelled    *)
(* 0..n-1, whatever the order of the rows the upstream call answered with. *)
(***************************************************************************)
C11_SortedRenumbered ==
    HasReturned => DatesAscend(result.series) /\ RowsRenumbered(result.series)

\* akshare's answer had its later date first: the returned rows are swapped
\* (the open of the upstream row r is 10 + r)
C11_Witness ==
    /\ HasReturned
    /\ result.tag = "akshare"
    /\ Len(result.series.rows) = 2
    /\ ColumnValues(result.series, "Open") = << 12, 11 >>
    /\ ColumnValues(result.series, "Date") = << 1, MaxDate >>

\* the dates of the raw table, row by row: its date column, or its index
\* when the dates are there
RawDates ==
    IF \E i \in DOMAIN raw.cols : lower(raw.cols[i]) = "date"
    THEN Tuple([r \in DOMAIN raw.rows |->
                  raw.rows[r].cells[CHOOSE i \in DOMAIN raw.cols : lower(raw.cols[i]) = "date"]])
    ELSE Tuple([r \in DOMAIN raw.rows |-> raw.rows[r].idx])

\* how often the value v occurs in the sequence s
Occurrences(s, v) == Cardinality({i \in DOMAIN s : s[i] = v})

(***************************************************************************)
(* C12, as the specification states it: in the table _standardize_data     *)
(* returns the dates are strictly increasing, no date occurring twice,     *)
(* also when the raw table has several rows of one date.                   *)
(***************************************************************************)
C12_StrictlyIncreasing ==
    Standardized =>
       \A r \in 1..(Len(standardized.table.rows) - 1) :
          ColumnValues(standardized.table, "Date")[r]
             < ColumnValues(standardized.table, "Date")[r + 1]

(***************************************************************************)
(* C12, amended: in the table _standardize_data returns the dates are      *)
(* non-decreasing and no row is dropped: every date occurs as often as in  *)
(* the raw table, so that the dates are strictly increasing exactly when   *)
(* the raw table has no date twice.                                        *)
(***************************************************************************)
C12_DuplicatesKept ==
    Standardized =>
       /\ DatesAscend(standardized.table)
       /\ Len(standardized.table.rows) = Len(raw.rows)
       /\ \A d \in 0..(MaxDate + 1) :
            Occurrences(ColumnValues(standardized.table, "Date"), d)
               = Occurrences(RawDates, d)

\* a raw table with two rows of one date was standardized: both rows are in
\* the output
C12_Witness ==
    /\ Standardized
    /\ Len(raw.rows) = 2
    /\ RawDates[1] = RawDates[2]
    /\ Len(standardized.table.rows) = 2
    /\ ColumnValues(standardized.table, "Date")[1] = ColumnValues(standardized.table, "Date")[2]

\* the column names the raw table has once the index is promoted and the
\* columns are renamed
ResolvedNames ==
    {RenameColumn(raw.cols[i]) : i \in DOMAIN raw.cols}
      \cup (IF raw.index_name = "Date" /\ "Date" \notin ColumnSet(raw)
            THEN {"Date"} ELSE {})

\* the date and price columns, in the order line 278 lists them
PriceColumns == << "Date", "Open", "High", "Low", "Close" >>

\* the positions in PriceColumns of the columns the raw table leaves unresolved
Unresolved == {i \in DOMAIN PriceColumns : PriceColumns[i] \notin ResolvedNames}

\* _standardize_data raised the error of line 285
MissingColumnError ==
    /\ pc = "standardized"
    /\ ~standardized.ok
    /\ standardized.msg = "missing"

(***************************************************************************)
(* C13, as the specification states it: _standardize_data fails with the   *)
(* missing-column error exactly when one of Date, Open, High, Low, Close   *)
(* is unresolved after the renaming, and the error names every unresolved  *)
(* column.                                                                 *)
(***************************************************************************)
C13_NamesEveryMissing ==
    pc = "standardized" =>
       /\ MissingColumnError <=> Unresolved # {}
       /\ MissingColumnError =>
            {standardized.col} = {PriceColumns[i] : i \in Unresolved}

(***************************************************************************)
(* C13, amended: _standardize_data fails with the missing-column error (a  *)
(* ValueError) exactly when one of Date, Open, High, Low, Close is         *)
(* unresolved after the renaming; the error names one column, the first    *)
(* unresolved one in the order Date, Open, High, Low, Close; and no table  *)
(* is returned.                                                            *)
(***************************************************************************)
C13_NamesFirstMissing ==
    pc = "standardized" =>
       /\ MissingColumnError <=> Unresolved # {}
       /\ MissingColumnError =>
            /\ standardized.exc = "ValueError"
            /\ \E i \in Unresolved :
                 /\ standardized.col = PriceColumns[i]
                 /\ \A j \in Unresolved : i <= j
            /\ "table" \notin DOMAIN standardized

\* a raw table without Open, Low and Close was rejected
C13_Witness ==
    /\ MissingColumnError
    /\ Unresolved = {2, 4, 5}
    /\ standardized.col = "Open"

\* _generate_mock_data has returned a table
Generated == pc = "generated" /\ standardized.ok

\* the raw table has the date and the price columns and no volume
OnlyVolumeMissing ==
    /\ pc = "standardized"
    /\ Unresolved = {}
    /\ "Volume" \notin ResolvedNames

\* every row of t has a volume the generator can draw
VolumesInRange(t) ==
    /\ HasColumn(t, "Volume")
    /\ \A r \in DOMAIN t.rows :
         /\ t.rows[r].cells[ColumnAt(t, "Volume")] \in Int
         /\ 100000 <= t.rows[r].cells[ColumnAt(t, "Volume")]
         /\ t.rows[r].cells[ColumnAt(t, "Volume")] <= 10000000 - 1

(***************************************************************************)
(* C14: a raw table that lacks only the volume is not rejected for it:     *)
(* _standardize_data raises no missing-column error (it can fail only for  *)
(* its dates or for a name borne by two columns), and the table it returns *)
(* has a volume in every row; the volumes it makes up there, and those of  *)
(* the mock data, are integers from 100000 to 9999999, within the range    *)
(* 100000..10000000 and so not negative.                                   *)
(***************************************************************************)
C14_VolumeFabricated ==
    /\ OnlyVolumeMissing =>
         /\ ~MissingColumnError
         /\ standardized.ok \/ standardized.msg \in {"no date", "no dtype", "two columns"}
         /\ standardized.ok =>
              /\ VolumesInRange(standardized.table)
              /\ Len(standardized.table.rows) = Len(raw.rows)
    /\ Generated => VolumesInRange(standardized.table)

\* a raw table of two rows without volume was standardized, and the first
\* volume drawn is the largest there is
C14_Witness ==
    /\ OnlyVolumeMissing
    /\ standardized.ok
    /\ Len(standardized.table.rows) = 2
    /\ ColumnValues(standardized.table, "Volume")[1] = 9999999

\* the cell of row r of t in column c
Cell(t, r, c) == t.rows[r].cells[ColumnAt(t, c)]

\* row r of t has its adjusted prices and its daily change as lines 292-298
\* make them
RowDerived(t, r) ==
    /\ Cell(t, r, "Adj. Close") = Cell(t, r, "Close")
    /\ Cell(t, r, "Adj. Open") = Cell(t, r, "Open")
    /\ Cell(t, r, "Daily Change") = Cell(t, r, "Adj. Close") - Cell(t, r, "Adj. Open")
    /\ Cell(t, r, "Daily Change") = Cell(t, r, "Close") - Cell(t, r, "Open")

\* row r of t is row q of the raw table: it has q's date and q's value in
\* every column of the raw table
SameRow(t, r, q) ==
    /\ Cell(t, r, "Date") = RawDates[q]
    /\ \A i \in DOMAIN raw.cols :
         lower(raw.cols[i]) \notin {"ds", "y"} =>
            Cell(t, r, RenameColumn(raw.cols[i])) = raw.rows[q].cells[i]

(***************************************************************************)
(* C15: in every row of every table _standardize_data returns (for a raw   *)
(* table or for the frame of the mock data), Adj. Close is Close, Adj.     *)
(* Open is Open and Daily Change is Adj. Close - Adj. Open, that is,       *)
(* Close - Open; and the sort moves rows whole: the rows of the output are *)
(* the rows of the raw table, each with all its values.                    *)
(***************************************************************************)
C15_DerivedPerRow ==
    /\ (Standardized \/ Generated) =>
          \A r \in DOMAIN standardized.table.rows : RowDerived(standardized.table, r)
    /\ Standardized =>
          /\ \A r \in DOMAIN standardized.table.rows :
                \E q \in DOMAIN raw.rows : SameRow(standardized.table, r, q)
          /\ \A q \in DOMAIN raw.rows :
                \E r \in DOMAIN standardized.table.rows : SameRow(standardized.table, r, q)

\* a raw table with its later date first was standardized: the two rows are
\* swapped and each has the daily change of its own prices
C15_Witness ==
    /\ Standardized
    /\ Len(raw.rows) = 2
    /\ RawDates = << MaxDate, 1 >>
    /\ ColumnValues(standardized.table, "Date") = << 1, MaxDate >>
    /\ ColumnValues(standardized.table, "Open") = << 1, 1 >>
    /\ ColumnValues(standardized.table, "Daily Change") = << MaxPrice + 1, MaxPrice >>

\* the tables _generate_mock_data returns for a ticker in a process whose
\* str hashes are salted with salt
MockSeries(t, salt) == {o.table : o \in {m \in _generate_mock_data(t, salt) : m.ok}}

(***************************************************************************)
(* C16: the mock data depend on the ticker only: the table                 *)
(* _generate_mock_data returns for a ticker is the same in every call,     *)
(* whatever np.random was left at by earlier calls and in whatever process *)
(* (with whatever salt of str hashes) the call is made.                    *)
(***************************************************************************)
C16_TickerOnly ==
    Generated => \A salt \in HashSalts : MockSeries(ticker, salt) = {standardized.table}

\* fetch_stock_data has returned the mock data
ReturnedMock == HasReturned /\ EventsOf("mock") # {}

(***************************************************************************)
(* C17: a series fetch_stock_data returns as mock data has 365 or 366 rows *)
(* (366: the days of 2024), one for each calendar day of the year from     *)
(* its first to its last, whatever the period the call was made with.      *)
(***************************************************************************)
C17_OneYearOfDays ==
    ReturnedMock =>
      /\ Len(result.series.rows) \in {365, 366}
      /\ Len(result.series.rows) = 31 + 29 + 31 + 30 + 31 + 30 + 31 + 31 + 30 + 31 + 30 + 31
      /\ Cell(result.series, 1, "Date") = 1
      /\ \A r \in 1..(Len(result.series.rows) - 1) :
           Cell(result.series, r + 1, "Date") = Cell(result.series, r, "Date") + 1

\* mock data returned to a call made with the period 5y
C17_Witness ==
    /\ ReturnedMock
    /\ period = "5y"
    /\ Len(result.series.rows) = 366
    /\ Cell(result.series, 366, "Date") = 366

(***************************************************************************)
(* The name manager's calls, read off its events.                          *)
(***************************************************************************)
\* the step just taken was a call of the named operation
JustCalled(op) ==
    /\ Len(events') = Len(events) + 1
    /\ events'[Len(events')].ev = op

\* the positions of the get_stock_name calls among the events
GetNameCalls == {i \in DOMAIN events : events[i].ev = "get_name"}

\* akshare had no name to give: it raised, or answered with an empty table,
\* a table without the item column or a table without the row of the name
NoLiveName(info) ==
    \/ info.raises
    \/ info.rows = << >>
    \/ ~info.has_item
    \/ \A i \in DOMAIN info.rows : info.rows[i][1] # "gupiao jiancheng"

\* the names of the rows of the name in akshare's answer
LiveNames(info) ==
    IF NoLiveName(info) THEN {}
    ELSE {info.rows[i][2] : i \in {j \in DOMAIN info.rows :
                                      info.rows[j][1] = "gupiao jiancheng"}}

(***************************************************************************)
(* C18: get_stock_name is total.  Whatever the ticker and whatever akshare *)
(* does (library missing, exception, empty answer, answer without the row  *)
(* of the name), the call raises nothing and returns a name: the           *)
(* directory's name when the directory has the key, else the name akshare  *)
(* gave, else the default name gupiao-<key>; with no name from akshare and *)
(* none in the directory it is the default name.                           *)
(***************************************************************************)
C18_GetNameTotal ==
    [][JustCalled("get_name") =>
        LET e == events'[Len(events')]
            key == TickerKey(e.arg)
        IN  /\ e.raised = "none"
            /\ Truthy(e.ret)
            /\ IF key \in DOMAIN stock_names
               THEN e.ret = stock_names[key]
               ELSE IF ~AKSHARE_AVAILABLE \/ NoLiveName(e.info)
               THEN e.ret = DefaultName(key)
               ELSE e.ret \in LiveNames(e.info) \cup {DefaultName(key)}]_vars

\* two calls that found nothing: akshare raised in one and answered without
\* the row of the name in the other
C18_Witness ==
    /\ \E i \in GetNameCalls :
          /\ events[i].called
          /\ events[i].info.raises
          /\ events[i].ret = DefaultName(TickerKey(events[i].arg))
    /\ \E i \in GetNameCalls :
          /\ events[i].called
          /\ ~events[i].info.raises
          /\ events[i].info.rows # << >>
          /\ NoLiveName(events[i].info)
          /\ events[i].ret = DefaultName(TickerKey(events[i].arg))

\* get_stock_name was called at i and again at j for the same ticker, and
\* refresh_cache was not called in between
CalledTwice(i, j) ==
    /\ i \in GetNameCalls
    /\ j \in GetNameCalls
    /\ i < j
    /\ events[i].arg = events[j].arg
    /\ \A k \in (i + 1)..(j - 1) : events[k].ev # "refresh"

\* j is the first call after i for which CalledTwice(i, j)
CalledNext(i, j) ==
    /\ CalledTwice(i, j)
    /\ \A k \in (i + 1)..(j - 1) : ~CalledTwice(i, k)

\* the last call of get_stock_name for its key ended in the default name,
\* and refresh_cache was not called since
EndedInDefault(i) ==
    /\ i \in GetNameCalls
    /\ events[i].from = "default"
    /\ \A k \in (i + 1)..Len(events) :
          /\ events[k].ev # "refresh"
          /\ events[k].ev = "get_name" =>
                TickerKey(events[k].arg) # TickerKey(events[i].arg)

(***************************************************************************)
(* C19 as stated: of two calls of get_stock_name for the same ticker with  *)
(* no refresh_cache in between, the second returns what the first          *)
(* returned and does not call akshare, also when the first returned the    *)
(* default name.                                                           *)
(***************************************************************************)
C19_AlwaysCached ==
    \A i, j \in DOMAIN events :
        CalledTwice(i, j) =>
            /\ events[j].ret = events[i].ret
            /\ ~events[j].called

(***************************************************************************)
(* C19 as the code has it: of two calls of get_stock_name for the same     *)
(* ticker with no refresh_cache in between, the second returns what the    *)
(* first returned and does not call akshare when the first took its name   *)
(* from the directory or from akshare.  The default name is not stored:    *)
(* the directory has no entry for the key after a call that returned it,   *)
(* the next call asks akshare again whenever akshare is installed, and it  *)
(* returns akshare's name if there is one now and the same default name    *)
(* otherwise.                                                              *)
(***************************************************************************)
C19_CachedUnlessDefault ==
    /\ \A i, j \in DOMAIN events :
          CalledTwice(i, j) /\ events[i].from \in {"directory", "live"} =>
              /\ events[j].ret = events[i].ret
              /\ events[j].from = "directory"
              /\ ~events[j].called
    /\ \A i, j \in DOMAIN events :
          CalledNext(i, j) /\ events[i].from = "default" =>
              /\ events[j].called = AKSHARE_AVAILABLE
              /\ IF AKSHARE_AVAILABLE /\ LiveNames(events[j].info) \ {<< >>} # {}
                 THEN /\ events[j].from = "live"
                      /\ events[j].ret \in LiveNames(events[j].info)
                 ELSE /\ events[j].from = "default"
                      /\ events[j].ret = events[i].ret
    /\ \A i \in DOMAIN events :
          EndedInDefault(i) => TickerKey(events[i].arg) \notin DOMAIN stock_names

\* the first call asked akshare in vain and returned the default name, the
\* second asked again and returned akshare's name
C19_Witness ==
    \E i, j \in DOMAIN events :
        /\ CalledNext(i, j)
        /\ events[i].from = "default"
        /\ events[i].called
        /\ events[i].ret = DefaultName(TickerKey(events[i].arg))
        /\ events[j].called
        /\ events[j].from = "live"
        /\ events[j].ret # events[i].ret

\* the keys of a dict
Keys(d) == DOMAIN d

\* the positions of the refresh_cache calls among the events
RefreshCalls == {i \in DOMAIN events : events[i].ev = "refresh"}

(***************************************************************************)
(* C20 as stated: refresh_cache is additive.  Every key the directory has  *)
(* before the call it has after the call, whether the new listings have    *)
(* the key, lack it, or fail.                                              *)
(***************************************************************************)
C20_RefreshAdditive ==
    [][JustCalled("refresh") => Keys(stock_names) \subseteq Keys(stock_names')]_vars

(***************************************************************************)
(* C20 as the code has it: refresh_cache empties the directory, the        *)
(* industries and cache_date before it fetches.  After the call the        *)
(* directory holds the entries the listings gave and no other: a key       *)
(* the listings lack is gone, and when the listings fail or akshare is     *)
(* missing the directory is empty and the cache file is as it was.  It is  *)
(* the fetch of the constructor that is additive: every key loaded from    *)
(* the cache file is in the directory after __init__.                      *)
(***************************************************************************)
C20_RefreshReplaces ==
    [][/\ JustCalled("refresh") =>
            LET fetched == events'[Len(events')].fetched
            IN  /\ Keys(stock_names') = Keys(fetched)
                /\ \A k \in Keys(fetched) : stock_names'[k] = fetched[k]
                /\ Keys(stock_industries') = Keys(fetched)
                /\ \A k \in Keys(stock_names) \ Keys(fetched) :
                       k \notin Keys(stock_names')
                /\ cache_date' = NoDate
                /\ fetched = << >> => cache_file' = cache_file
                /\ ~AKSHARE_AVAILABLE => fetched = << >>
       /\ JustCalled("construct") =>
            Keys(_load_cache(cache_file).names) \subseteq Keys(stock_names')]_vars

\* two refreshes of a directory that had entries: after the first the
\* directory has lost a key and holds the listings' entries, after the second,
\* whose listings failed, it is empty
C20_Witness ==
    /\ \E i \in RefreshCalls :
          /\ events[i].fetched # << >>
          /\ Keys(events[i].before) \ Keys(events[i].fetched) # {}
    /\ \E i \in RefreshCalls :
          /\ i = Len(events)
          /\ events[i].before # << >>
          /\ events[i].fetched = << >>
          /\ stock_names = << >>
          /\ cache_file.exists

\* the positions of the bulk fetches among the events: the constructions
\* and the refresh_cache calls
BulkFetches == {i \in DOMAIN events : events[i].ev \in {"construct", "refresh"}}

(***************************************************************************)
(* C21 as stated: in one bulk fetch a later listing only fills gaps.  When *)
(* the two listings give different names for a code, the name of the       *)
(* first listing is the one gathered.                                      *)
(***************************************************************************)
C21_EarlierKept ==
    \A i \in BulkFetches :
        \A k \in Keys(events[i].listed[1]) \cap Keys(events[i].listed[2]) :
            events[i].fetched[k] = events[i].listed[1][k]

(***************************************************************************)
(* C21 as the code has it: in one bulk fetch the listings are merged into  *)
(* all_stocks by assignment, so a later listing overwrites.  A code both   *)
(* listings have gets the name of the second listing, a code one of them   *)
(* has gets the name of that listing, and no other code is gathered from   *)
(* the two.                                                                *)
(***************************************************************************)
C21_LaterOverwrites ==
    \A i \in BulkFetches :
        LET first == events[i].listed[1]
            second == events[i].listed[2]
            fetched == events[i].fetched
        IN  Keys(first) \cup Keys(second) # {} =>
               /\ Keys(fetched) = Keys(first) \cup Keys(second)
               /\ \A k \in Keys(second) : fetched[k] = second[k]
               /\ \A k \in Keys(first) \ Keys(second) : fetched[k] = first[k]

\* a bulk fetch whose listings gave two names for 600519, MT first and KW
\* second, and the directory has KW
C21_Witness ==
    \E i \in BulkFetches :
        /\ i = Len(events)
        /\ Code600519 \in Keys(events[i].listed[1]) \cap Keys(events[i].listed[2])
        /\ events[i].listed[1][Code600519] = << "M", "T" >>
        /\ events[i].listed[2][Code600519] = << "K", "W" >>
        /\ events[i].fetched[Code600519] = << "K", "W" >>
        /\ stock_names[Code600519] = << "K", "W" >>

\* the date of a cache file as _load_cache reads it: None without a file
\* that unpickles
FileDate(file) == IF file.exists /\ ~file.corrupt THEN file.date ELSE NoDate

\* the names of a cache file as _load_cache reads them
FileNames(file) == IF file.exists /\ ~file.corrupt THEN file.names ELSE << >>

\* the manager has been constructed
Constructed == pc = "ready" /\ Len(events) >= 1 /\ events[1].ev = "construct"

C23_EmptyGate ==
    [][JustCalled("construct") /\ FileNames(cache_file) = << >>
          => events'[Len(events')].fetches = 1]_vars

\* the last thing done was a bulk fetch that gathered entries
JustFetched ==
    /\ Len(events) \in BulkFetches
    /\ events[Len(events)].fetched # << >>

(***************************************************************************)
(* C24: after a bulk fetch that gathered entries, the date of the          *)
(* directory is the time of that fetch, in the cache file and in the       *)
(* manager's cache_date, so that _is_cache_expired answers False right     *)
(* after the fetch.                                                        *)
(***************************************************************************)
C24_FreshAfterRefresh ==
    JustFetched =>
        /\ FileDate(cache_file) = now
        /\ cache_date = now
        /\ ~_is_cache_expired(cache_date, now)

\* the event of the call just made
Latest == events'[Len(events')]

\* the step just taken was a call that fetches nothing in bulk, or a
\* refresh_cache whose bulk fetch gathered nothing
JustQueriedOrFailed ==
    \/ JustCalled("get_name")
    \/ JustCalled("get_industry")
    \/ JustCalled("search")
    \/ JustCalled("refresh") /\ Latest.fetched = << >>

(***************************************************************************)
(* C25 as stated: cache_date and the cache file change only through a      *)
(* bulk fetch that gathers entries.  A get_stock_name, get_stock_industry  *)
(* or search_stocks_by_name call, and a refresh_cache whose listings all   *)
(* fail, leave cache_date and the cache file as they were.                 *)
(***************************************************************************)
C25_DateAndFileKept ==
    [][JustQueriedOrFailed =>
          /\ cache_date' = cache_date
          /\ cache_file' = cache_file]_vars

(***************************************************************************)
(* C25 as the code has it: the cache file changes only through a bulk      *)
(* fetch that gathers entries, and cache_date, once loaded, changes only   *)
(* by refresh_cache setting it to None.  A get_stock_name,                 *)
(* get_stock_industry or search_stocks_by_name call leaves cache_date and  *)
(* the file as they were (get_stock_name may add an entry to the           *)
(* directory); a refresh_cache whose listings all fail leaves the file as  *)
(* it was, sets cache_date to None and leaves the directory empty.         *)
(***************************************************************************)
C25_FileKeptDateReset ==
    [][/\ (JustCalled("get_name") \/ JustCalled("get_industry") \/ JustCalled("search"))
            => /\ cache_date' = cache_date
               /\ cache_file' = cache_file
       /\ (JustCalled("get_industry") \/ JustCalled("search"))
            => /\ stock_names' = stock_names
               /\ stock_industries' = stock_industries
       /\ (JustCalled("refresh") /\ Latest.fetched = << >>)
            => /\ cache_file' = cache_file
               /\ cache_date' = NoDate
               /\ stock_names' = << >>
       /\ cache_file' # cache_file
            => /\ JustCalled("construct") \/ JustCalled("refresh")
               /\ Latest.fetched # << >>
       /\ cache_date' # cache_date
            => \/ JustCalled("construct")
               \/ JustCalled("refresh") /\ cache_date' = NoDate]_vars

\* a live name was added to a directory loaded from a fresh cache file, then
\* a refresh_cache whose listings failed set cache_date to None and left
\* the file as it was
C25_Witness ==
    /\ Len(events) = 3
    /\ events[1].fetches = 0
    /\ events[2].ev = "get_name"
    /\ events[2].from = "live"
    /\ events[3].ev = "refresh"
    /\ events[3].fetched = << >>
    /\ TickerKey(events[2].arg) \in Keys(events[3].before)
    /\ TickerKey(events[2].arg) \notin Keys(FileNames(cache_file))
    /\ cache_date = NoDate
    /\ FileDate(cache_file) = now - CACHE_EXPIRE_DAYS

\* the number of entries of a dict
Count(d) == Cardinality(DOMAIN d)

(***************************************************************************)
(* C26 as stated: refresh_cache never raises, and it reports the number of *)
(* entries it fetched, which is zero when every listing fails.  The        *)
(* report is taken to be the value returned or the count printed.          *)
(***************************************************************************)
C26_ReportsCount ==
    [][JustCalled("refresh") =>
          /\ Latest.raised = "none"
          /\ \/ Latest.ret.kind = "int" /\ Latest.ret.value = Count(Latest.fetched)
             \/ Latest.printed = << Count(Latest.fetched) >>]_vars

(***************************************************************************)
(* C26 as the code has it: refresh_cache never raises, whether akshare is  *)
(* missing, its listings raise, are empty or have unexpected columns.  It  *)
(* returns None.  When entries were fetched it prints their number; when   *)
(* every listing fails it prints no count, and the directory is left with  *)
(* no entry.  The directory has as many entries after the call as were     *)
(* fetched.                                                                *)
(***************************************************************************)
C26_NeverRaisesReturnsNone ==
    [][JustCalled("refresh") =>
          /\ Latest.raised = "none"
          /\ Latest.ret = NoneValue
          /\ Latest.fetched # << >> => Latest.printed = << Count(Latest.fetched) >>
          /\ Latest.fetched = << >> => Latest.printed = << >>
          /\ ~AKSHARE_AVAILABLE => Latest.fetched = << >>
          /\ Count(stock_names') = Count(Latest.fetched)]_vars

\* a refresh_cache without akshare, then: nothing raised, nothing fetched,
\* no count printed, an empty directory
C26_Witness ==
    /\ ~AKSHARE_AVAILABLE
    /\ Len(events) \in RefreshCalls
    /\ events[Len(events)].raised = "none"
    /\ events[Len(events)].before # << >>
    /\ events[Len(events)].printed = << >>
    /\ Count(stock_names) = 0

\* keyword occurs in name as a run of consecutive characters, letter for letter
HasSubstring(name, keyword) ==
    \E pre \in 0..Len(name) :
        /\ pre + Len(keyword) <= Len(name)
        /\ \A i \in 1..Len(keyword) : name[pre + i] = keyword[i]

\* the places of a search result that are about a code
EntriesOf(found, code) == {i \in DOMAIN found : found[i].code = code}

(***************************************************************************)
(* C27: search_stocks_by_name(keyword) returns exactly one entry (code,    *)
(* name, industry) for each code of the directory whose name contains the  *)
(* keyword as a case-sensitive substring, with the name and the industry   *)
(* the directory has for it, and no entry for any other code; it leaves    *)
(* stock_names, stock_industries and cache_date as they were.              *)
(***************************************************************************)
C27_SearchExact ==
    [][JustCalled("search") =>
          /\ \A code \in Keys(stock_names) :
                HasSubstring(stock_names[code], Latest.arg)
                    => /\ Cardinality(EntriesOf(Latest.ret, code)) = 1
                       /\ \A i \in EntriesOf(Latest.ret, code) :
                             /\ Latest.ret[i].name = stock_names[code]
                             /\ code \in Keys(stock_industries)
                                    => Latest.ret[i].industry = stock_industries[code]
          /\ \A i \in DOMAIN Latest.ret :
                /\ Latest.ret[i].code \in Keys(stock_names)
                /\ HasSubstring(stock_names[Latest.ret[i].code], Latest.arg)
          /\ stock_names' = stock_names
          /\ stock_industries' = stock_industries
          /\ cache_date' = cache_date]_vars

\* a search that found one of several names, then a search for a keyword
\* that is in names of the directory only in the other case of the letter
C27_Witness ==
    /\ Len(events) = 3
    /\ events[2].ev = "search"
    /\ Len(events[2].ret) = 1
    /\ Count(stock_names) >= 2
    /\ events[3].ev = "search"
    /\ events[3].ret = << >>
    /\ \E code \in Keys(stock_names) :
          /\ ~HasSubstring(stock_names[code], events[3].arg)
          /\ HasSubstring(StrUpper(stock_names[code]), StrUpper(events[3].arg))

\* a run of n blanks
Blanks(n) == [i \in 1..n |-> " "]

\* wide is narrow with blanks put before it and after it
BlanksAround(narrow, wide) ==
    \E a, b \in 0..2 : wide = Blanks(a) \o narrow \o Blanks(b)

\* the two cases of the letters the tickers below are written with
LetterCases ==
    {<< "a", "A" >>, << "b", "B" >>, << "c", "C" >>, << "s", "S" >>, << "z", "Z" >>}

\* the two tickers are the same up to the case of their letters
SameButCase(t1, t2) ==
    /\ Len(t1) = Len(t2)
    /\ \A i \in 1..Len(t1) :
          \/ t1[i] = t2[i]
          \/ << t1[i], t2[i] >> \in LetterCases
          \/ << t2[i], t1[i] >> \in LetterCases

\* long is short followed by a '.' and a suffix, short having no '.'
SuffixAdded(short, long) ==
    /\ \A i \in 1..Len(short) : short[i] # "."
    /\ Len(long) > Len(short)
    /\ long[Len(short) + 1] = "."
    /\ \A i \in 1..Len(short) : long[i] = short[i]

\* t is a code of digits
DigitCode(t) ==
    /\ Len(t) >= 1
    /\ \A i \in 1..Len(t) : t[i] \in {"0","1","2","3","4","5","6","7","8","9"}

\* long is the code short, of fewer than 6 digits, with zeros put before it
ZerosBefore(short, long) ==
    /\ DigitCode(short)
    /\ Len(short) < 6
    /\ DigitCode(long)
    /\ Len(long) > Len(short)
    /\ \A i \in 1..Len(long) :
          IF i <= Len(long) - Len(short)
          THEN long[i] = "0"
          ELSE long[i] = short[i - (Len(long) - Len(short))]

\* spellings of tickers: of the code 000001 with blanks, zeros and
\* suffixes, and of a ticker of letters
TickerForms ==
    {<< "1" >>, << "0", "1" >>, << "0", "0", "0", "0", "0", "1" >>,
     << "0", "0", "0", "0", "0", "0", "1" >>,
     << " ", "1" >>, << "1", " " >>, << " ", "0", "1", " " >>,
     << "1", ".", "s", "z" >>, << "1", ".", "S", "Z" >>,
     << " ", "1", ".", "s", "z" >>, << "1", ".", "s", "z", " " >>,
     << "1", " ", ".", "s", "z" >>,
     << "a", "b", "c" >>, << "A", "B", "C" >>, << "a", "B", "c" >>,
     << " ", "a", "b", "c", " " >>, << "a", "b", "c", ".", "s", "z" >>,
     << "a", "b", "c", " ", ".", "S", "Z" >>, << "a", "b", "c", " " >>,
     << ".", "s", "z" >>, << >>}

\* the two tickers differ in one of the four ways only
DifferInForm(t1, t2) ==
    \/ BlanksAround(t1, t2)
    \/ SameButCase(t1, t2)
    \/ SuffixAdded(t1, t2)
    \/ ZerosBefore(t1, t2)

\* the pairs of different spellings that differ in one of the four ways
FormPairs ==
    {q : q \in {p \in TickerForms \X TickerForms :
                    p[1] # p[2] /\ DifferInForm(p[1], p[2])}}

\* the spellings that differ from t in one of the four ways
Respelled(t) ==
    {t2 \in TickerForms : << t, t2 >> \in FormPairs \/ << t2, t >> \in FormPairs}

\* the outcome o of get_stock_name is the one of the call just made
OutcomeAsCalled(o) ==
    /\ o.ret = Latest.ret
    /\ o.from = Latest.from
    /\ o.called = Latest.called
    /\ o.raised = Latest.raised
    /\ o.names = stock_names'
    /\ o.industries = stock_industries'

\* the call just made, made with the ticker t2 instead, would have done the
\* same: the same value returned, from the same source, with the same call
\* of akshare and the same two dicts afterwards
SameAsCalled(t2) ==
    IF Latest.ev = "get_industry"
    THEN get_stock_industry(stock_industries, t2) = Latest.ret
    ELSE \A info \in InfoOutcomes :
            (Latest.called => info = Latest.info)
                => OutcomeAsCalled(get_stock_name(stock_names, stock_industries,
                                                  AKSHARE_AVAILABLE, t2, info))

\* the step just taken was a lookup by ticker
JustLookedUp == JustCalled("get_name") \/ JustCalled("get_industry")

(***************************************************************************)
(* C28 as stated: two tickers that differ only in surrounding whitespace,  *)
(* in letter case, in a suffix after the '.' or in leading zeros of a code *)
(* of digits get the same result from get_stock_name and from              *)
(* get_stock_industry, read and written under the same key.                *)
(***************************************************************************)
C28_SameForEveryForm ==
    [][JustLookedUp => \A t2 \in Respelled(Latest.arg) : SameAsCalled(t2)]_vars

\* the ticker ends in whitespace
EndsInBlank(t) == Len(t) > 0 /\ t[Len(t)] \in {" ", "\t", "\n"}

\* the pairs whose second ticker is the first, ending in whitespace, with a
\* suffix added
BlankBeforeDot ==
    {q : q \in {p \in FormPairs : SuffixAdded(p[1], p[2]) /\ EndsInBlank(p[1])}}

\* the pairs whose second ticker is the first with zeros before it, more
\* than 6 digits in all
ZerosPastSix ==
    {q : q \in {p \in FormPairs : ZerosBefore(p[1], p[2]) /\ Len(p[2]) > 6}}

\* the pairs of spellings that do not come to the same key
KeysApart == BlankBeforeDot \cup ZerosPastSix

(***************************************************************************)
(* C28 as the code has it: strip() of line 175 takes away the whitespace   *)
(* at the two ends of the whole input, before the suffix is cut off, and   *)
(* zfill(6) of line 183 pads a code of digits to 6 and leaves a longer     *)
(* one as it is.  Two tickers get the same result, under the same key,     *)
(* when they differ only in whitespace at the ends of the input, in letter *)
(* case, in leading zeros of a code of digits with at most 6 digits in     *)
(* either spelling, or in a suffix from the first '.' on that follows a    *)
(* text not ending in whitespace.  A ticker with whitespace just before    *)
(* its '.' keeps that whitespace in its key, and a code of more than 6     *)
(* digits keeps its zeros: their keys are not the key of the other         *)
(* spelling.                                                               *)
(***************************************************************************)
C28_SameForStrippedForm ==
    [][JustLookedUp =>
          \A t2 \in Respelled(Latest.arg) :
              IF << Latest.arg, t2 >> \in KeysApart \/ << t2, Latest.arg >> \in KeysApart
              THEN /\ TickerKey(t2) # TickerKey(Latest.arg)
                   /\ << Latest.arg, t2 >> \in BlankBeforeDot => EndsInBlank(TickerKey(t2))
                   /\ << t2, Latest.arg >> \in BlankBeforeDot
                          => EndsInBlank(TickerKey(Latest.arg))
                   /\ << Latest.arg, t2 >> \in ZerosPastSix => TickerKey(t2) = t2
              ELSE TickerKey(t2) = TickerKey(Latest.arg) /\ SameAsCalled(t2)]_vars

\* get_stock_name stored a live name for one spelling of a code, and then
\* found it in the directory for another spelling
C28_Witness ==
    /\ Len(events) = 3
    /\ events[2].ev = "get_name"
    /\ events[2].from = "live"
    /\ events[3].ev = "get_name"
    /\ events[3].from = "directory"
    /\ events[3].arg # events[2].arg
    /\ events[3].ret = events[2].ret
    /\ Keys(stock_names) = {<< "0", "0", "0", "0", "0", "1" >>}

\* the step just taken was a call of the module's get_stock_name for a code
\* of A_STOCK_NAMES
JustAskedTableCode ==
    /\ JustCalled("name")
    /\ Latest.arg \in Keys(A_STOCK_NAMES)

\* the directory has a name for the code
InDirectory(code) == code \in Keys(stock_names) /\ stock_names[code] # << >>

(***************************************************************************)
(* C29 as stated: for a code of A_STOCK_NAMES, the module's get_stock_name *)
(* returns the name of the table and calls akshare for no live lookup,     *)
(* also when the directory of the complete manager has no entry for the    *)
(* code.                                                                   *)
(***************************************************************************)
C29_TableNameNoCall ==
    [][JustAskedTableCode =>
          /\ Latest.ret = A_STOCK_NAMES[Latest.arg]
          /\ Latest.calls = 0]_vars

(***************************************************************************)
(* C29 as the code has it: the module's get_stock_name asks the complete   *)
(* manager first.  For a code of A_STOCK_NAMES it never raises and never   *)
(* returns the default name.  When the directory has a name for the code,  *)
(* that name is returned and akshare is not called.  When it has none,     *)
(* the complete manager makes its one live lookup if akshare is there: a   *)
(* name found is returned and stored in the directory; without one, or     *)
(* without akshare, the name of the table is returned, with no further     *)
(* call.  name_cache is left as it was.                                    *)
(***************************************************************************)
C29_TableNameAfterLookup ==
    [][JustAskedTableCode =>
          /\ Latest.raised = "none"
          /\ Latest.ret # DefaultName(Latest.arg)
          /\ name_cache' = name_cache
          /\ IF InDirectory(Latest.arg)
             THEN /\ Latest.ret = stock_names[Latest.arg]
                  /\ Latest.calls = 0
                  /\ stock_names' = stock_names
             ELSE /\ Latest.calls = IF AKSHARE_AVAILABLE THEN 1 ELSE 0
                  /\ IF Latest.calls = 1 /\ LiveNames(Latest.info) \ {<< >>} # {}
                     THEN /\ Latest.ret \in LiveNames(Latest.info)
                          /\ stock_names' = DictPut(stock_names, Latest.arg, Latest.ret)
                     ELSE /\ Latest.ret = A_STOCK_NAMES[Latest.arg]
                          /\ stock_names' = stock_names]_vars

\* no cache file and a bulk fetch that gathered nothing; then, for 600519,
\* a live lookup that failed and the name of the table returned
C29_Witness ==
    /\ Len(events) = 2
    /\ cache_file = NoFile
    /\ events[1].fetches = 1
    /\ events[1].fetched = << >>
    /\ events[2].ev = "name"
    /\ events[2].arg = Code600519
    /\ events[2].calls = 1
    /\ events[2].info.raises
    /\ events[2].ret = A_STOCK_NAMES[Code600519]
    /\ stock_names = << >>

\* the call of safe_get_stock_data is over
SafeOver == safe # Nothing /\ safe.at # "called"

(***************************************************************************)
(* C30: safe_get_stock_data never raises.  With fallback_to_mock true it   *)
(* returns a table, the one get_stock_data returned or the mock data; it   *)
(* returns None only when fallback_to_mock is false and get_stock_data     *)
(* raised.                                                                 *)
(***************************************************************************)
C30_SafeNeverRaises ==
    SafeOver =>
        /\ safe.at = "returned"
        /\ safe.fallback => IsUsable(safe.ret)
        /\ safe.ret = NoneTable => ~safe.fallback /\ safe.acquired = "raised"

\* the adapter of the given name has no symbol for the ticker of the call
Untranslatable(src) ==
    IF src = "akshare"
    THEN _convert_ticker_to_akshare(ticker) = NoSymbol
    ELSE _convert_ticker_to_tushare(ticker) = NoSymbol

\* the upstream calls made for the adapter of the given name
UpstreamOf(src) ==
    {i \in DOMAIN events : events[i].ev = "upstream" /\ events[i].src = src}

(***************************************************************************)
(* C31: an adapter that has no symbol for the ticker fails before any      *)
(* upstream call.  Over all the attempts of one fetch_stock_data, no       *)
(* upstream call is made for such an adapter, and each of its calls is     *)
(* followed at once by its failure.                                        *)
(***************************************************************************)
C31_NoUpstreamWithoutSymbol ==
    \A src \in {"akshare", "tushare"} :
        Untranslatable(src) =>
            /\ UpstreamOf(src) = {}
            /\ \A i \in CallsOf(src) :
                  /\ i + 1 \in FailsOf(src)
                  /\ events[i + 1].attempt = events[i].attempt

\* akshare, imported, was called max_retries times for a ticker it has no
\* symbol for, and the call has returned without an upstream call
C31_Witness ==
    /\ pc = "returned"
    /\ AKSHARE_AVAILABLE
    /\ Untranslatable("akshare")
    /\ Cardinality(CallsOf("akshare")) = max_retries
    /\ UpstreamOf("akshare") = {}

\* the raw table has no date column in any letter case and carries the dates
\* as its index, named date in some letter case
IndexCarriesDate(t) ==
    /\ lower(t.index_name) = "date"
    /\ \A i \in DOMAIN t.cols : lower(t.cols[i]) # "date"

\* apart from the date the raw table has what normalization asks for: each
\* price column once, in some letter case, and index values that are dates
CompleteBesidesDate(t) ==
    /\ \A c \in {"open", "high", "low", "close"} :
          Cardinality({i \in DOMAIN t.cols : lower(t.cols[i]) = c}) = 1
    /\ \/ t.index_dtype = "datetime64"
       \/ \A r \in DOMAIN t.rows : t.rows[r].idx # BadDate

(***************************************************************************)
(* C32: when the raw table has no date column and carries the dates as its *)
(* index, whatever the letter case of the index's name ('Date' or 'date'), *)
(* _standardize_data promotes the index to the column Date: it never       *)
(* complains of a missing Date, and it returns a table, whose dates are    *)
(* those of the index, whenever the rest of the raw table is complete.     *)
(***************************************************************************)
C32_IndexPromotedAnyCase ==
    (pc = "standardized" /\ IndexCarriesDate(raw)) =>
       /\ standardized.ok \/ standardized.msg # "missing" \/ standardized.col # "Date"
       /\ CompleteBesidesDate(raw) => standardized.ok
       /\ standardized.ok =>
             \A d \in 0..(MaxDate + 1) :
                Occurrences(ColumnValues(standardized.table, "Date"), d)
                   = Occurrences(Tuple([r \in DOMAIN raw.rows |-> raw.rows[r].idx]), d)

\* the closes of the generated table, in hundredths
Closes == ColumnValues(standardized.table, "Close")

\* the increment drawn for day r + 1, in hundredths: the r-th draw from the
\* generator seeded with the ticker's hash
Increment(r) == RandNormal(RngStates(StrHash(ticker, hash_salt), r)[r], 200)

(***************************************************************************)
(* C33: in every synthetic series the first close is 100.0 and every close *)
(* is at least 1.0; each close is max(previous close + increment, 1.0), so *)
(* that a close the increments would take to 1.0 or below is exactly 1.0.  *)
(***************************************************************************)
C33_WalkFloored ==
    Generated =>
       /\ Len(Closes) = MockDays
       /\ Closes[1] = 10000
       /\ \A r \in DOMAIN Closes : Closes[r] >= 100
       /\ \A r \in 1..(Len(Closes) - 1) :
             Closes[r + 1] = max(Closes[r] + Increment(r), 100)

\* a series whose increments take the price below 1.0 on some day: the close
\* of that day is 1.0
C33_Witness ==
    /\ Generated
    /\ Closes[1] = 10000
    /\ \E r \in 1..(Len(Closes) - 1) :
          /\ Closes[r] + Increment(r) < 100
          /\ Closes[r + 1] = 100

\* the dates of the returned table, row by row
OutDates == ColumnValues(standardized.table, "Date")

\* the dates found in the raw table or in the returned one
DatesSeen == {RawDates[r] : r \in DOMAIN RawDates} \cup {OutDates[r] : r \in DOMAIN OutDates}

(***************************************************************************)
(* C34: normalization never drops or adds rows: the table it returns has   *)
(* as many rows as the raw table and the same dates, each as often as in   *)
(* the raw table, so that the rows of one date are all kept.               *)
(***************************************************************************)
C34_RowsKept ==
    Standardized =>
       /\ Len(standardized.table.rows) = Len(raw.rows)
       /\ Len(OutDates) = Len(RawDates)
       /\ \A d \in DatesSeen : Occurrences(OutDates, d) = Occurrences(RawDates, d)

\* a raw table of text dates with one date in several rows and different
\* opens was standardized: every row is back, each open with it
C34_Witness ==
    /\ Standardized
    /\ Len(raw.rows) = MaxRows
    /\ \A r \in DOMAIN RawDates : RawDates[r] = RawDates[1]
    /\ Len(standardized.table.rows) = MaxRows
    /\ Cardinality({ColumnValues(standardized.table, "Open")[r] :
                      r \in DOMAIN standardized.table.rows}) > 1

\* the calls of the module's get_stock_industry among the events
IndustryLookups == {i \in DOMAIN events : events[i].ev = "industry"}

(***************************************************************************)
(* C35: the module's get_stock_industry falls back to the static industry  *)
(* table when the complete directory has nothing for the ticker: for a     *)
(* ticker of the static table with no industry stored in the directory it  *)
(* returns the static table's industry ('BaiJiu' for 600519) and not the   *)
(* placeholder guessed from the code's prefix.                             *)
(***************************************************************************)
C35_StaticTableWhenNothingStored ==
    \A i \in IndustryLookups :
       (/\ ~events[i].stored
        /\ NameCacheKey(events[i].arg) \in DOMAIN INDUSTRY_MAPPING) =>
          /\ events[i].ret = INDUSTRY_MAPPING[NameCacheKey(events[i].arg)]
          /\ events[i].ret # _guess_industry_by_code(TickerKey(events[i].arg))

\* the calls of get_stock_name that took the name of the key from akshare
\* and were followed by no refresh_cache
LiveStored(key) ==
    {i \in GetNameCalls :
        /\ events[i].from = "live"
        /\ TickerKey(events[i].arg) = key
        /\ \A k \in (i + 1)..Len(events) : events[k].ev # "refresh"}

(***************************************************************************)
(* C36: when get_stock_name misses the directory and the live lookup       *)
(* returns a name, the name is stored under the normalized ticker together *)
(* with an industry; every later get_stock_name for that ticker with no    *)
(* refresh in between returns the same name from the directory without     *)
(* calling akshare, whatever akshare would answer then (the step is taken  *)
(* for every answer, an exception included).                               *)
(***************************************************************************)
C36_LiveNameStored ==
    [][JustCalled("get_name") =>
          /\ Latest.from = "live" =>
                /\ Latest.called
                /\ Latest.ret \in LiveNames(Latest.info)
                /\ TickerKey(Latest.arg) \notin DOMAIN stock_names
                      \/ ~Truthy(stock_names[TickerKey(Latest.arg)])
                /\ TickerKey(Latest.arg) \in DOMAIN stock_names'
                /\ stock_names'[TickerKey(Latest.arg)] = Latest.ret
                /\ TickerKey(Latest.arg) \in DOMAIN stock_industries'
                /\ stock_industries'[TickerKey(Latest.arg)]
                      = _guess_industry_by_code(TickerKey(Latest.arg))
          /\ \A i \in LiveStored(TickerKey(Latest.arg)) :
                /\ Latest.ret = events[i].ret
                /\ Latest.from = "directory"
                /\ ~Latest.called
                /\ UNCHANGED << stock_names, stock_industries >>]_vars

\* a name taken from akshare for one spelling of a code is returned for
\* another spelling of it without a call, and the directory has it with an
\* industry
C36_Witness ==
    \E i, j \in GetNameCalls :
        /\ i < j
        /\ events[i].from = "live"
        /\ events[i].called
        /\ events[j].arg # events[i].arg
        /\ TickerKey(events[j].arg) = TickerKey(events[i].arg)
        /\ \A k \in i..j : events[k].ev # "refresh"
        /\ events[j].ret = events[i].ret
        /\ ~events[j].called
        /\ TickerKey(events[i].arg) \in DOMAIN stock_industries

\* the tickers looked at when a lookup is made: the ticker of the call and
\* the spellings of TickerForms
FormsAt(t) == TickerForms \cup {t}

(***************************************************************************)
(* C37 as stated: the normalization of get_stock_name and                  *)
(* get_stock_industry is idempotent.  For every ticker t the key of the    *)
(* key of t is the key of t, so that every key an entry is stored under    *)
(* is a fixed point of the normalization.                                  *)
(***************************************************************************)
C37_KeyIdempotent ==
    [][JustLookedUp =>
          \A t \in FormsAt(Latest.arg) : TickerKey(TickerKey(t)) = TickerKey(t)]_vars

(***************************************************************************)
(* C37 as the code has it: strip() comes before the cut at the first '.',  *)
(* so the key of a ticker with whitespace just before its '.' ends in that *)
(* whitespace; normalizing such a key strips it (and pads what is left     *)
(* when it is all digits) and gives another key.  For every other ticker   *)
(* the key is a fixed point: the key of the key is the key.                *)
(***************************************************************************)
C37_KeyIdempotentUnlessBlank ==
    [][JustLookedUp =>
          \A t \in FormsAt(Latest.arg) :
              IF EndsInBlank(TickerKey(t))
              THEN /\ HasDot(StrStrip(t))
                   /\ TickerKey(TickerKey(t)) # TickerKey(t)
                   /\ TickerKey(TickerKey(t)) = TickerKey(StrStrip(TickerKey(t)))
                   /\ ~EndsInBlank(TickerKey(TickerKey(t)))
              ELSE TickerKey(TickerKey(t)) = TickerKey(t)]_vars

\* get_stock_industry was asked about "1 .sz", whose key "1 " has the key
\* 000001, and get_stock_name stored a name under a key that is its own key
C37_Witness ==
    /\ \E i \in DOMAIN events :
          /\ events[i].ev = "get_industry"
          /\ EndsInBlank(TickerKey(events[i].arg))
          /\ TickerKey(TickerKey(events[i].arg)) = Code000001
    /\ \E i \in GetNameCalls :
          /\ events[i].from = "live"
          /\ TickerKey(events[i].arg) \in DOMAIN stock_names
          /\ TickerKey(TickerKey(events[i].arg)) = TickerKey(events[i].arg)

\* the step just taken was a bulk fetch: the constructor's or refresh_cache
JustFetchedInBulk == JustCalled("construct") \/ JustCalled("refresh")

(***************************************************************************)
(* C38: starting from an absent or empty cache, after any sequence of      *)
(* construction, get_stock_name, get_stock_industry, search and refresh    *)
(* calls, every ticker that has a name in stock_names has an industry in   *)
(* stock_industries; and no bulk fetch changes the industry of a ticker    *)
(* that has one before the fetch and after it.                             *)
(***************************************************************************)
C38_NamedHaveIndustry ==
    [][/\ Keys(stock_names) \subseteq Keys(stock_industries)
       /\ Keys(stock_names') \subseteq Keys(stock_industries')
       /\ JustFetchedInBulk =>
             \A k \in Keys(stock_industries) \cap Keys(stock_industries') :
                 stock_industries'[k] = stock_industries[k]]_vars

\* the directory was filled by the constructor, a name was added from
\* akshare by get_stock_name, and refresh_cache fetched the listing again:
\* every name has its industry
C38_Witness ==
    /\ \E i \in GetNameCalls : events[i].from = "live"
    /\ \E i \in RefreshCalls : events[i].fetched # << >>
    /\ events[1].ev = "construct"
    /\ events[1].fetched # << >>
    /\ Keys(stock_names) # {}
    /\ Keys(stock_names) \subseteq Keys(stock_industries)

\* akshare is out of the way: not configured, or all its attempts failed
AkshareSpent ==
    "akshare" \in SourceNames => Cardinality(FailsOf("akshare")) = max_retries

(***************************************************************************)
(* C39: the tushare adapter fails on every call, for every ticker, and     *)
(* fetch_stock_data never returns the tag 'tushare'.  When tushare is      *)
(* configured and akshare has failed all its attempts, the call makes      *)
(* max_retries attempts on tushare, sleeps base_delay * 2^k after each     *)
(* but the last, and then returns the mock data.                           *)
(***************************************************************************)
C39_TushareAlwaysFails ==
    /\ \A i \in CallsOf("tushare") :
          /\ i + 1 \in FailsOf("tushare")
          /\ events[i + 1].exc \in {"Exception", "ImportError"}
    /\ \A i \in EventsOf("success") : events[i].src # "tushare"
    /\ UpstreamOf("tushare") = {}
    /\ HasReturned =>
          /\ result.tag # "tushare"
          /\ ("tushare" \in SourceNames /\ result.tag # "akshare") =>
                /\ AkshareSpent
                /\ Cardinality(CallsOf("tushare")) = max_retries
                /\ \A i \in FailsOf("tushare") :
                      IF events[i].attempt < max_retries - 1
                      THEN /\ events[i + 1]
                                = [ev |-> "sleep",
                                   delay |-> base_delay * (2 ^ events[i].attempt)]
                           /\ NextIsCall(i + 1, "tushare", events[i].attempt + 1)
                      ELSE /\ i + 1 = Len(events)
                           /\ events[i + 1].ev = "mock"
                /\ result.tag = "mock_data"

\* a ticker tushare has a symbol for: after akshare's three failures the
\* three attempts on tushare fail for want of a token, with two sleeps
\* between them, and the mock data are returned
C39_Witness ==
    /\ HasReturned
    /\ data_sources = << "akshare", "tushare" >>
    /\ _convert_ticker_to_tushare(ticker) # NoSymbol
    /\ Cardinality(FailsOf("akshare")) = max_retries
    /\ Cardinality(CallsOf("tushare")) = max_retries
    /\ \A i \in FailsOf("tushare") : events[i].failure = "Unavailable"
    /\ Cardinality({i \in EventsOf("sleep") :
                      \E j \in CallsOf("tushare") : j < i}) = max_retries - 1
    /\ result.tag = "mock_data"

\* the step just taken constructed the manager over a cache file that
\* exists and cannot be read or deserialized
JustConstructedOverCorrupt ==
    /\ JustCalled("construct")
    /\ cache_file = CorruptFile

(***************************************************************************)
(* C40: when the cache file exists but cannot be read or deserialized,     *)
(* constructing the manager raises nothing: it starts from an empty        *)
(* stock_names, an empty stock_industries and the cache_date None, nothing *)
(* of the file being kept, and so it runs the bulk fetch exactly once;     *)
(* the directory then holds what that fetch gathered and nothing else.     *)
(***************************************************************************)
C40_CorruptCacheStartsEmpty ==
    [][JustConstructedOverCorrupt =>
          /\ Latest.raised = "none"
          /\ Latest.expired
          /\ Latest.fetches = 1
          /\ pc' = "ready"
          /\ cache_date' = NoDate
          /\ stock_names' = Latest.fetched
          /\ Keys(stock_industries') = Keys(Latest.fetched)
          /\ Latest.fetched = << >> => cache_file' = cache_file]_vars

\* the manager was constructed over a corrupt file, fetched a listing once
\* and could not write it: the file is still corrupt and the directory holds
\* the listing
C40_Witness ==
    /\ Len(events) = 1
    /\ events[1].ev = "construct"
    /\ events[1].fetches = 1
    /\ events[1].fetched # << >>
    /\ events[1].raised = "none"
    /\ cache_file = CorruptFile
    /\ stock_names = events[1].fetched
    /\ cache_date = NoDate

====
